---- MODULE Spec2Model ----
(***************************************************************************)
(* Get-Smallest read path of db/db_impl/spdb_db_gs_impl.cc.                *)
(*                                                                         *)
(* A query (DBImpl::GetSmallestAtOrAfter) walks the levels of a referenced *)
(* superversion from the newest to the oldest.  Per level it runs          *)
(* ProcessLogLevel, which coordinates the level's values iterator, the     *)
(* level's range-tombstone iterator and the cursor of the global deletion  *)
(* list, until a new candidate smallest key (CSK) is found or the level is *)
(* exhausted.                                                              *)
(*                                                                         *)
(* User keys are byte strings (sequences of bytes) ordered bytewise.       *)
(* Internal keys are the user key followed by the 8-byte trailer           *)
(* (type, then the sequence number, little endian).                        *)
(*                                                                         *)
(* The model follows the build that compiles assertions out (NDEBUG): a    *)
(* failed assert does not stop a query.  The one assertion modelled as a   *)
(* stop is the assert(0) of ValidateItersProgress (NoProgressAbort), which *)
(* only the concurrent specification takes.                                *)
(***************************************************************************)
EXTENDS Integers, Sequences, FiniteSets, TLC

VARIABLES
    sv,                          \* the superversion the queries reference
    gs_validate_iters_progress,  \* process-wide debug flag
    loop_count,                  \* file-scope counter of ProcessLogLevel
    prev_value,                  \* file-scope progress tracking state
    prev_range_del,
    prev_range_ts,
    prev_del_list,
    pc,                          \* per query: position in GetSmallestAtOrAfter
    gc,                          \* per query: GlobalContext (with the del-list)
    lc,                          \* per query: LevelContext of the level at hand
    ret,                         \* per query: returned status and *key
    scan                         \* per query: what the levels read so far hold

vars == <<sv, gs_validate_iters_progress, loop_count, prev_value,
          prev_range_del, prev_range_ts, prev_del_list, pc, gc, lc, ret, scan>>

-----------------------------------------------------------------------------
(* Bounds of the model *)

MaxLevelWrites == 2   \* writes held by one memtable / file / level
MaxImm == 1           \* immutable memtables
MaxL0 == 1            \* level-0 files
MaxLevel == 1         \* levels 1..MaxLevel
MaxRunIterations == 12   \* iterations RunLoop gives a main loop
MaxLoopCount == 2     \* loop_count saturates here (it is only compared to 1)

-----------------------------------------------------------------------------
(* Keys and comparators *)

EmptySlice == <<>>

UserKeys == {<<97>>, <<97, 1>>, <<98>>}

Targets == {EmptySlice} \cup UserKeys

\* Comparator::Compare of the bytewise user comparator: <0, 0, >0
RECURSIVE Compare(_, _)
Compare(a, b) ==
    IF a = <<>> THEN (IF b = <<>> THEN 0 ELSE -1)
    ELSE IF b = <<>> THEN 1
    ELSE IF Head(a) < Head(b) THEN -1
    ELSE IF Head(a) > Head(b) THEN 1
    ELSE Compare(Tail(a), Tail(b))

\* the first byte of the trailer of an internal key is its value type
TypeByte ==
    [kTypeDeletion |-> 0, kTypeValue |-> 1, kTypeMerge |-> 2, kTypeBlobIndex |-> 17]

\* the bytes of an internal key: user key, then (seq << 8 | type) as fixed64
InternalKeyBytes(ikey) ==
    ikey.user_key \o <<TypeByte[ikey.type], ikey.sequence % 256,
                       (ikey.sequence \div 256) % 256, 0, 0, 0, 0, 0>>

\* a classification that takes a point deletion for a value
GetValueCategoryOfKey_DeletionAsValue(type) ==
    CASE type \in {"kTypeValue", "kTypeDeletion"} -> "VALUE"
      [] type = "kTypeMerge" -> "MERGE_VALUE"
      [] OTHER -> "OTHER"

\* GetValueCategoryOfKey
GetValueCategoryOfKey(type) ==
    CASE type = "kTypeValue" -> "VALUE"
      [] type = "kTypeMerge" -> "MERGE_VALUE"
      [] type = "kTypeDeletion" -> "DEL_KEY"
      [] OTHER -> "OTHER"

-----------------------------------------------------------------------------
(* The content of a level: what its iterators iterate                      *)

PointOps == [op : {"kTypeValue", "kTypeMerge", "kTypeDeletion", "kTypeBlobIndex"},
             key : UserKeys, end : {EmptySlice}]

RangeOps == {w \in [op : {"kTypeRangeDeletion"}, key : UserKeys, end : UserKeys] :
                Compare(w.key, w.end) < 0}

WriteOps == PointOps \cup RangeOps

\* write histories of one level, oldest write first
Histories(minLen) ==
    UNION {[1..n -> WriteOps] : n \in minLen..MaxLevelWrites}

NumSlots == 1 + MaxImm + MaxL0 + MaxLevel

\* sequence number of the i-th write of the level in slot s (slot 1 is the
\* mutable memtable, the newest): newer slots hold greater sequence numbers
SeqOf(s, i) == (NumSlots - s) * MaxLevelWrites + i

\* smallest key of a non-empty set of keys
MinKey(S) == CHOOSE k \in S : \A o \in S : Compare(k, o) <= 0

RECURSIVE SortKeys(_)
SortKeys(S) ==
    IF S = {} THEN <<>>
    ELSE LET m == MinKey(S) IN <<m>> \o SortKeys(S \ {m})

\* internal key order: user key ascending, sequence descending
IKeyLess(a, b) ==
    \/ Compare(a.user_key, b.user_key) < 0
    \/ a.user_key = b.user_key /\ a.sequence > b.sequence

RECURSIVE SortIKeys(_)
SortIKeys(S) ==
    IF S = {} THEN <<>>
    ELSE LET m == CHOOSE e \in S : \A o \in S : e = o \/ IKeyLess(e, o)
         IN <<m>> \o SortIKeys(S \ {m})

\* the point entries of a level, as its table / memtable iterator yields them
ValueRows(s, h) ==
    SortIKeys({[user_key |-> h[i].key, sequence |-> SeqOf(s, i), type |-> h[i].op] :
                 i \in {j \in DOMAIN h : h[j].op # "kTypeRangeDeletion"}})

\* the fragmented range tombstones of a level: one fragment per gap between
\* two consecutive boundaries that some tombstone covers, carrying the
\* greatest covering sequence number
RangeRows(s, h) ==
    LET rd == {i \in DOMAIN h : h[i].op = "kTypeRangeDeletion"}
        bounds == SortKeys({h[i].key : i \in rd} \cup {h[i].end : i \in rd})
        covering(j) == {i \in rd : /\ Compare(h[i].key, bounds[j]) <= 0
                                   /\ Compare(bounds[j + 1], h[i].end) <= 0}
        gaps == {j \in 1..(Len(bounds) - 1) : covering(j) # {}}
        frag(j) == [start_key_ |-> bounds[j], end_key_ |-> bounds[j + 1],
                    seq_ |-> SeqOf(s, CHOOSE i \in covering(j) :
                                          \A o \in covering(j) : o <= i)]
        RECURSIVE build(_)
        build(j) == IF j >= Len(bounds) THEN <<>>
                    ELSE (IF j \in gaps THEN <<frag(j)>> ELSE <<>>) \o build(j + 1)
    IN IF rd = {} THEN <<>> ELSE build(1)

-----------------------------------------------------------------------------
(* InternalIteratorWrapper: the values iterator of a level                 *)
(* it = [rows, pos, status, upper_bound_, valid_]                          *)

\* wrapped_iter_ptr_->Valid(): an iterator that met an I/O error is invalid
WrappedValuesValid(it) == it.status = "OK" /\ it.pos <= Len(it.rows)

InternalIteratorWrapper_HasUpperBound(it) == it.upper_bound_ # EmptySlice

\* an iterator wrapper that ignores its upper bound
InternalIteratorWrapper_UpdateValidity_NoUpperBound(it) ==
    [it EXCEPT !.valid_ = WrappedValuesValid(it)]

\* compares the whole internal key of the wrapped iterator with the bound
InternalIteratorWrapper_UpdateValidity(it) ==
    [it EXCEPT !.valid_ =
        IF WrappedValuesValid(it) /\ InternalIteratorWrapper_HasUpperBound(it)
        THEN Compare(InternalKeyBytes(it.rows[it.pos]), it.upper_bound_) < 0
        ELSE WrappedValuesValid(it)]

InternalIteratorWrapper_New(rows, status, upper_bound) ==
    [rows |-> rows, pos |-> 1, status |-> status,
     upper_bound_ |-> upper_bound, valid_ |-> FALSE]

InternalIteratorWrapper_SeekToFirst(it) ==
    InternalIteratorWrapper_UpdateValidity([it EXCEPT !.pos = 1])

\* a seek that ignores its target and lands on the first entry
InternalIteratorWrapper_Seek_ToFirst(it, target) ==
    InternalIteratorWrapper_SeekToFirst(it)

\* a seek that lands after the target
InternalIteratorWrapper_Seek_After(it, target) ==
    LET at == {i \in 1..Len(it.rows) : Compare(it.rows[i].user_key, target) > 0}
        p == IF at = {} THEN Len(it.rows) + 1
             ELSE CHOOSE i \in at : \A j \in at : i <= j
    IN InternalIteratorWrapper_UpdateValidity([it EXCEPT !.pos = p])

\* LookupKey(target, kMaxSequenceNumber): the first entry of the first user
\* key that is >= target
InternalIteratorWrapper_Seek(it, target) ==
    LET at == {i \in 1..Len(it.rows) : Compare(it.rows[i].user_key, target) >= 0}
        p == IF at = {} THEN Len(it.rows) + 1
             ELSE CHOOSE i \in at : \A j \in at : i <= j
    IN InternalIteratorWrapper_UpdateValidity([it EXCEPT !.pos = p])

InternalIteratorWrapper_Next(it) ==
    InternalIteratorWrapper_UpdateValidity([it EXCEPT !.pos = it.pos + 1])

InternalIteratorWrapper_key(it) == it.rows[it.pos]

-----------------------------------------------------------------------------
(* TruncatedRangeDelIteratorWrapper: the range tombstones of a level       *)
(* it = [wrapped_iter_ptr_, rows, pos, upper_bound_, valid_]               *)
(* wrapped_iter_ptr_ is FALSE for a null pointer                           *)

NoRangeTombstone == [start_key_ |-> EmptySlice, end_key_ |-> EmptySlice, seq_ |-> 0]

WrappedRangeDelValid(it) == it.pos <= Len(it.rows)

TruncatedRangeDelIteratorWrapper_HasUpperBound(it) == it.upper_bound_ # EmptySlice

\* an UpdateValidity that does not look at the pointer to the wrapped iterator
TruncatedRangeDelIteratorWrapper_UpdateValidity_NoNullCheck(it) ==
    [it EXCEPT !.valid_ =
        IF WrappedRangeDelValid(it)
           /\ TruncatedRangeDelIteratorWrapper_HasUpperBound(it)
        THEN ~(Compare(it.rows[it.pos].start_key_, it.upper_bound_) >= 0)
        ELSE WrappedRangeDelValid(it)]

TruncatedRangeDelIteratorWrapper_UpdateValidity(it) ==
    [it EXCEPT !.valid_ =
        IF ~it.wrapped_iter_ptr_ THEN FALSE
        ELSE IF WrappedRangeDelValid(it)
                /\ TruncatedRangeDelIteratorWrapper_HasUpperBound(it)
        THEN ~(Compare(it.rows[it.pos].start_key_, it.upper_bound_) >= 0)
        ELSE WrappedRangeDelValid(it)]

TruncatedRangeDelIteratorWrapper_New(wrapped, rows, upper_bound) ==
    [wrapped_iter_ptr_ |-> wrapped, rows |-> rows, pos |-> 1,
     upper_bound_ |-> upper_bound, valid_ |-> FALSE]

TruncatedRangeDelIteratorWrapper_SetUpperBound(it, upper_bound) ==
    TruncatedRangeDelIteratorWrapper_UpdateValidity(
        [it EXCEPT !.upper_bound_ = upper_bound])

TruncatedRangeDelIteratorWrapper_SeekToFirst(it) ==
    IF it.wrapped_iter_ptr_
    THEN TruncatedRangeDelIteratorWrapper_UpdateValidity([it EXCEPT !.pos = 1])
    ELSE it

\* the wrapped iterator seeks to the first fragment that ends after target
TruncatedRangeDelIteratorWrapper_Seek(it, target) ==
    IF it.wrapped_iter_ptr_
    THEN LET at == {i \in 1..Len(it.rows) : Compare(it.rows[i].end_key_, target) > 0}
             p == IF at = {} THEN Len(it.rows) + 1
                  ELSE CHOOSE i \in at : \A j \in at : i <= j
         IN TruncatedRangeDelIteratorWrapper_UpdateValidity([it EXCEPT !.pos = p])
    ELSE it

TruncatedRangeDelIteratorWrapper_Next(it) ==
    IF it.wrapped_iter_ptr_
    THEN TruncatedRangeDelIteratorWrapper_UpdateValidity(
             [it EXCEPT !.pos = IF it.pos <= Len(it.rows) THEN it.pos + 1 ELSE it.pos])
    ELSE it

\* a Tombstone() that returns the tombstone of the wrapped iterator as it is
TruncatedRangeDelIteratorWrapper_Tombstone_Unclipped(it) ==
    IF it.wrapped_iter_ptr_ THEN it.rows[it.pos] ELSE NoRangeTombstone

\* the current tombstone, its end clipped at the upper bound
TruncatedRangeDelIteratorWrapper_Tombstone(it) ==
    IF it.wrapped_iter_ptr_
    THEN LET curr_range_ts == it.rows[it.pos]
         IN IF ~TruncatedRangeDelIteratorWrapper_HasUpperBound(it) THEN curr_range_ts
            ELSE IF Compare(curr_range_ts.end_key_, it.upper_bound_) <= 0
                 THEN curr_range_ts
                 ELSE [curr_range_ts EXCEPT !.end_key_ = it.upper_bound_]
    ELSE NoRangeTombstone

TruncatedRangeDelIteratorWrapper_key(it) == it.rows[it.pos].start_key_

-----------------------------------------------------------------------------
(* DelElement and the comparison primitives                                *)
(* A DelElement is [user_start_key, user_end_key]: a half-open range, or a *)
(* point when user_end_key is empty.                                       *)

DelElement(user_start_key, user_end_key) ==
    [user_start_key |-> user_start_key, user_end_key |-> user_end_key]

DelElementPoint(user_key) == DelElement(user_key, EmptySlice)

IsRange(del_elem) == del_elem.user_end_key # EmptySlice

\* DelElement::contains
Contains(del_elem, user_key) ==
    IF IsRange(del_elem)
    THEN /\ Compare(del_elem.user_start_key, user_key) <= 0
         /\ Compare(user_key, del_elem.user_end_key) < 0
    ELSE del_elem.user_start_key = user_key

CompareDelElemToUserKey(del_elem, user_key) ==
    IF IsRange(del_elem) /\ Compare(del_elem.user_end_key, user_key) <= 0 THEN "BEFORE"
    ELSE IF ~IsRange(del_elem) /\ Compare(del_elem.user_start_key, user_key) < 0
    THEN "BEFORE"
    ELSE IF Compare(del_elem.user_start_key, user_key) > 0 THEN "AFTER"
    ELSE "OVERLAP"

\* the values of RelativePos a classifier switch has a case for
RelativePositions == {"BEFORE", "AFTER", "OVERLAP"}

\* a comparison that does not recognise an overlap and answers NONE
CompareRangeTsToUserKey_NoOverlap(range_ts, user_key) ==
    IF Compare(range_ts.end_key_, user_key) <= 0 THEN "BEFORE"
    ELSE IF Compare(range_ts.start_key_, user_key) > 0 THEN "AFTER"
    ELSE "NONE"

CompareRangeTsToUserKey(range_ts, user_key) ==
    IF Compare(range_ts.end_key_, user_key) <= 0 THEN "BEFORE"
    ELSE IF Compare(range_ts.start_key_, user_key) > 0 THEN "AFTER"
    ELSE "OVERLAP"

RelPosOf(c) == IF c < 0 THEN "BEFORE" ELSE IF c = 0 THEN "OVERLAP" ELSE "AFTER"

\* [pos, overlap_start_rel_pos, overlap_end_rel_pos]; a point ends at its key,
\* which lies inside the tombstone when they overlap
CompareDelElemToRangeTs(del_elem, range_ts) ==
    LET before == IF IsRange(del_elem)
                  THEN Compare(del_elem.user_end_key, range_ts.start_key_) <= 0
                  ELSE Compare(del_elem.user_start_key, range_ts.start_key_) < 0
        after == Compare(del_elem.user_start_key, range_ts.end_key_) >= 0
    IN IF before
       THEN [pos |-> "BEFORE", overlap_start_rel_pos |-> "NONE",
             overlap_end_rel_pos |-> "NONE"]
       ELSE IF after
       THEN [pos |-> "AFTER", overlap_start_rel_pos |-> "NONE",
             overlap_end_rel_pos |-> "NONE"]
       ELSE [pos |-> "OVERLAP",
             overlap_start_rel_pos |->
                 RelPosOf(Compare(del_elem.user_start_key, range_ts.start_key_)),
             overlap_end_rel_pos |->
                 IF IsRange(del_elem)
                 THEN RelPosOf(Compare(del_elem.user_end_key, range_ts.end_key_))
                 ELSE "BEFORE"]

-----------------------------------------------------------------------------
(* GlobalDelList and its iterator                                          *)
(* The list is a sequence of DelElements, the iterator an index into it    *)
(* (Len + 1 when it is not Valid).                                         *)

DelListIter_Valid(del_list, iter) == iter <= Len(del_list)

\* first position at or after from whose element is not BEFORE user_key
DelListScan(del_list, from, user_key) ==
    LET at == {i \in from..Len(del_list) :
                  CompareDelElemToUserKey(del_list[i], user_key) # "BEFORE"}
    IN IF at = {} THEN Len(del_list) + 1 ELSE CHOOSE i \in at : \A j \in at : i <= j

DelListIter_SeekToFirst(del_list) == 1

DelListIter_Seek(del_list, user_key) == DelListScan(del_list, 1, user_key)

DelListIter_SeekForward(del_list, iter, user_key) == DelListScan(del_list, iter, user_key)

\* two elements that overlap or touch and so are kept as one
Mergeable(a, b) ==
    IF IsRange(a) /\ IsRange(b)
    THEN /\ Compare(a.user_start_key, b.user_end_key) <= 0
         /\ Compare(b.user_start_key, a.user_end_key) <= 0
    ELSE IF IsRange(a) THEN Contains(a, b.user_start_key)
    ELSE IF IsRange(b) THEN Contains(b, a.user_start_key)
    ELSE a.user_start_key = b.user_start_key

\* a coalescing that keeps the first of the two elements and drops the other
Coalesce_KeepsFirst(a, b) == a

Coalesce(a, b) ==
    IF IsRange(a) /\ IsRange(b)
    THEN DelElement(
             IF Compare(a.user_start_key, b.user_start_key) <= 0
             THEN a.user_start_key ELSE b.user_start_key,
             IF Compare(a.user_end_key, b.user_end_key) >= 0
             THEN a.user_end_key ELSE b.user_end_key)
    ELSE IF IsRange(a) THEN a
    ELSE b

Remove(seq, i) == SubSeq(seq, 1, i - 1) \o SubSeq(seq, i + 1, Len(seq))

\* merge the element at i with the elements that follow it while they touch
RECURSIVE CoalesceForward(_, _)
CoalesceForward(del_list, i) ==
    IF i < Len(del_list) /\ Mergeable(del_list[i], del_list[i + 1])
    THEN CoalesceForward(
             Remove([del_list EXCEPT ![i] = Coalesce(del_list[i], del_list[i + 1])],
                    i + 1), i)
    ELSE del_list

\* merge the element at i with the elements before it while they touch;
\* [list, at]: the list and the position the element ends at
RECURSIVE CoalesceBackward(_, _)
CoalesceBackward(del_list, i) ==
    IF i > 1 /\ Mergeable(del_list[i - 1], del_list[i])
    THEN CoalesceBackward(
             Remove([del_list EXCEPT ![i - 1] = Coalesce(del_list[i - 1], del_list[i])],
                    i), i - 1)
    ELSE [list |-> del_list, at |-> i]

InsertAt(seq, i, e) == SubSeq(seq, 1, i - 1) \o <<e>> \o SubSeq(seq, i, Len(seq))

\* an insertion that does not coalesce
GlobalDelList_InsertBefore_NoCoalesce(del_list, iter, del_elem) ==
    [list |-> InsertAt(del_list, iter, del_elem), iter |-> iter + 1]

\* [list, iter]: del_elem inserted before the iterator and coalesced with its
\* neighbours; the iterator stays on the element it was on (on the inserted
\* one when the two were merged)
GlobalDelList_InsertBefore(del_list, iter, del_elem) ==
    LET inserted == InsertAt(del_list, iter, del_elem)
        fwd == CoalesceForward(inserted, iter)
        bwd == CoalesceBackward(fwd, iter)
        absorbed == Len(fwd) < Len(inserted)
    IN [list |-> bwd.list, iter |-> IF absorbed THEN bwd.at ELSE bwd.at + 1]

\* an insertion that leaves the list and its cursor as they are
GlobalDelList_InsertBeforeAndSetIterOnInserted_NoInsert(del_list, iter, del_elem) ==
    [list |-> del_list, iter |-> iter]

\* the same, the iterator left on the inserted element
GlobalDelList_InsertBeforeAndSetIterOnInserted(del_list, iter, del_elem) ==
    LET inserted == InsertAt(del_list, iter, del_elem)
        bwd == CoalesceBackward(CoalesceForward(inserted, iter), iter)
    IN [list |-> bwd.list, iter |-> bwd.at]

\* [list, iter]: the element under the iterator replaced, coalescing forward
GlobalDelList_ReplaceWith(del_list, iter, del_elem) ==
    [list |-> CoalesceForward([del_list EXCEPT ![iter] = del_elem], iter),
     iter |-> iter]

TrimElem(del_elem, upper_bound) ==
    IF IsRange(del_elem) /\ Compare(del_elem.user_end_key, upper_bound) > 0
    THEN DelElement(del_elem.user_start_key, upper_bound)
    ELSE del_elem

\* [list, iter]: every element at or above upper_bound removed, a range that
\* straddles it clipped; an iterator on a removed element moves to the next
\* element that is kept
GlobalDelList_Trim(del_list, iter, upper_bound) ==
    LET keep(i) == Compare(del_list[i].user_start_key, upper_bound) < 0
        kept == SelectSeq([i \in 1..Len(del_list) |-> i], keep)
    IN [list |-> [j \in 1..Len(kept) |-> TrimElem(del_list[kept[j]], upper_bound)],
        iter |-> Cardinality({j \in 1..Len(kept) : kept[j] < iter}) + 1]

-----------------------------------------------------------------------------
(* The level processor                                                     *)
(* g is a GlobalContext [target, csk, del_list, del_list_iter], l a        *)
(* LevelContext [values_iter, range_del_iter, values_parsed_ikey,          *)
(* value_category, new_csk_found_in_level]; the operators return the two   *)
(* as [gc, lc].                                                            *)

NoParsedIKey == [user_key |-> EmptySlice, sequence |-> 0, type |-> "NONE"]

UpdateCSK(g, l) ==
    LET new_csk == l.values_parsed_ikey.user_key
        trimmed == GlobalDelList_Trim(g.del_list, g.del_list_iter, new_csk)
    IN [gc |-> [g EXCEPT !.csk = new_csk,
                         !.del_list = trimmed.list,
                         !.del_list_iter = trimmed.iter],
        lc |-> [l EXCEPT !.range_del_iter =
                             TruncatedRangeDelIteratorWrapper_SetUpperBound(@, new_csk),
                         !.new_csk_found_in_level = TRUE]]

WithDelList(g, r) == [g EXCEPT !.del_list = r.list, !.del_list_iter = r.iter]

ProcessCurrRangeTsVsDelList(g, l, range_ts) ==
    LET range_elem == DelElement(range_ts.start_key_, range_ts.end_key_)
        inserted == [gc |-> WithDelList(g, GlobalDelList_InsertBefore(
                                g.del_list, g.del_list_iter, range_elem)),
                     lc |-> [l EXCEPT !.range_del_iter =
                                TruncatedRangeDelIteratorWrapper_Next(@)]]
    IN IF DelListIter_Valid(g.del_list, g.del_list_iter)
       THEN LET del_elem == g.del_list[g.del_list_iter]
                cmp == CompareDelElemToRangeTs(del_elem, range_ts)
                del_elem_starts_at_or_before_range_ts ==
                    cmp.overlap_start_rel_pos \in {"BEFORE", "OVERLAP"}
                del_elem_ends_before_range_ts == cmp.overlap_end_rel_pos = "BEFORE"
                replaced(new_elem) ==
                    GlobalDelList_ReplaceWith(g.del_list, g.del_list_iter, new_elem)
                replaced_and_forward(new_elem) ==
                    LET r == replaced(new_elem)
                    IN [gc |-> [g EXCEPT !.del_list = r.list,
                                         !.del_list_iter = DelListIter_SeekForward(
                                             r.list, r.iter, range_ts.end_key_)],
                        lc |-> l]
            IN CASE cmp.pos = "BEFORE" ->
                      [gc |-> [g EXCEPT !.del_list_iter = DelListIter_SeekForward(
                                   g.del_list, g.del_list_iter, range_ts.start_key_)],
                       lc |-> l]
                 [] cmp.pos = "AFTER" -> inserted
                 [] cmp.pos = "OVERLAP" ->
                      IF del_elem_starts_at_or_before_range_ts
                      THEN IF del_elem_ends_before_range_ts
                           THEN replaced_and_forward(
                                    DelElement(del_elem.user_start_key, range_ts.end_key_))
                           ELSE \* Del-elem contains range-ts => Nothing to do
                                [gc |-> g, lc |-> l]
                      ELSE IF del_elem_ends_before_range_ts
                           THEN replaced_and_forward(
                                    DelElement(range_ts.start_key_, range_ts.end_key_))
                           ELSE [gc |-> WithDelList(g, replaced(
                                     DelElement(range_ts.start_key_, del_elem.user_end_key))),
                                 lc |-> [l EXCEPT !.range_del_iter =
                                     TruncatedRangeDelIteratorWrapper_Seek(
                                         @, del_elem.user_end_key)]]
                 [] OTHER -> \* default: assert(0)
                      [gc |-> g, lc |-> l]
       ELSE \* del list exhausted
            inserted

ProcessCurrValuesIterVsDelList(g, l) ==
    LET user_key == l.values_parsed_ikey.user_key
        del_list_vs_values_iter_key ==
            IF DelListIter_Valid(g.del_list, g.del_list_iter)
            THEN CompareDelElemToUserKey(g.del_list[g.del_list_iter], user_key)
            ELSE "AFTER"
    IN CASE del_list_vs_values_iter_key = "BEFORE" ->
              [gc |-> [g EXCEPT !.del_list_iter = DelListIter_SeekForward(
                           g.del_list, g.del_list_iter, user_key)],
               lc |-> l]
         [] del_list_vs_values_iter_key = "AFTER" ->
              IF l.value_category \in {"VALUE", "MERGE_VALUE"}
              THEN UpdateCSK(g, l)
              ELSE IF l.value_category = "DEL_KEY"
              THEN [gc |-> WithDelList(g, GlobalDelList_InsertBeforeAndSetIterOnInserted(
                               g.del_list, g.del_list_iter, DelElementPoint(user_key))),
                    lc |-> [l EXCEPT !.values_iter = InternalIteratorWrapper_Next(@)]]
              ELSE [gc |-> g, lc |-> l]
         [] del_list_vs_values_iter_key = "OVERLAP" ->
              IF IsRange(g.del_list[g.del_list_iter])
              THEN [gc |-> g,
                    lc |-> [l EXCEPT !.values_iter = InternalIteratorWrapper_Seek(
                                @, g.del_list[g.del_list_iter].user_end_key)]]
              ELSE [gc |-> g,
                    lc |-> [l EXCEPT !.values_iter = InternalIteratorWrapper_Next(@)]]
         [] OTHER -> \* default: assert(0)
              [gc |-> g, lc |-> l]

\* a positioning that leaves the cursor of the deletion list where the
\* previous level left it
PositionIters_KeepsDelListCursor(g, l) ==
    IF g.target = EmptySlice
    THEN [gc |-> g,
          lc |-> [l EXCEPT
                    !.values_iter = InternalIteratorWrapper_SeekToFirst(@),
                    !.range_del_iter = TruncatedRangeDelIteratorWrapper_SeekToFirst(@)]]
    ELSE [gc |-> g,
          lc |-> [l EXCEPT
                    !.values_iter = InternalIteratorWrapper_Seek(@, g.target),
                    !.range_del_iter =
                        TruncatedRangeDelIteratorWrapper_Seek(@, g.target)]]

\* the initial positioning of ProcessLogLevel
PositionIters(g, l) ==
    IF g.target = EmptySlice
    THEN [gc |-> [g EXCEPT !.del_list_iter = DelListIter_SeekToFirst(g.del_list)],
          lc |-> [l EXCEPT
                    !.values_iter = InternalIteratorWrapper_SeekToFirst(@),
                    !.range_del_iter = TruncatedRangeDelIteratorWrapper_SeekToFirst(@)]]
    ELSE [gc |-> [g EXCEPT !.del_list_iter = DelListIter_Seek(g.del_list, g.target)],
          lc |-> [l EXCEPT
                    !.values_iter = InternalIteratorWrapper_Seek(@, g.target),
                    !.range_del_iter =
                        TruncatedRangeDelIteratorWrapper_Seek(@, g.target)]]

\* the condition of the main loop of ProcessLogLevel
LoopCondition(l) ==
    /\ ~l.new_csk_found_in_level
    /\ (l.values_iter.valid_ \/ l.range_del_iter.valid_)

\* a skip that takes the entry it skips as the CSK
ValuesIterNext_SetsCsk(g, l) ==
    LET r == UpdateCSK(g, l)
    IN [gc |-> r.gc,
        lc |-> [r.lc EXCEPT !.values_iter = InternalIteratorWrapper_Next(@)]]

\* a skip that passes two entries
ValuesIterNext_Twice(g, l) ==
    [gc |-> g,
     lc |-> [l EXCEPT !.values_iter =
                InternalIteratorWrapper_Next(InternalIteratorWrapper_Next(@))]]

ValuesIterNext(g, l) ==
    [gc |-> g, lc |-> [l EXCEPT !.values_iter = InternalIteratorWrapper_Next(@)]]

\* a main loop that leaves the level at a new CSK without folding the
\* overlapping range tombstone into the deletion list
LoopBody_NoFoldIn(g, l) ==
    IF ~l.values_iter.valid_
    THEN ProcessCurrRangeTsVsDelList(
             g, l, TruncatedRangeDelIteratorWrapper_Tombstone(l.range_del_iter))
    ELSE LET ikey == InternalIteratorWrapper_key(l.values_iter)
             lp == [l EXCEPT !.values_parsed_ikey = ikey,
                             !.value_category = GetValueCategoryOfKey(ikey.type)]
         IN IF lp.value_category = "OTHER" THEN ValuesIterNext(g, lp)
            ELSE IF ~lp.range_del_iter.valid_
            THEN ProcessCurrValuesIterVsDelList(g, lp)
            ELSE LET range_ts ==
                         TruncatedRangeDelIteratorWrapper_Tombstone(lp.range_del_iter)
                     range_ts_vs_values_iter_key ==
                         CompareRangeTsToUserKey(range_ts, ikey.user_key)
                 IN CASE range_ts_vs_values_iter_key = "BEFORE" ->
                           ProcessCurrRangeTsVsDelList(g, lp, range_ts)
                      [] range_ts_vs_values_iter_key = "AFTER" ->
                           ProcessCurrValuesIterVsDelList(g, lp)
                      [] range_ts_vs_values_iter_key = "OVERLAP" ->
                           IF lp.value_category = "DEL_KEY"
                           THEN ValuesIterNext(g, lp)
                           ELSE IF range_ts.seq_ < ikey.sequence
                           THEN ProcessCurrValuesIterVsDelList(g, lp)
                           ELSE ValuesIterNext(g, lp)
                      [] OTHER -> [gc |-> g, lc |-> lp]

\* one iteration of the main loop of ProcessLogLevel (without the progress
\* validation); [gc, lc]
LoopBody(g, l) ==
    IF ~l.values_iter.valid_
    THEN ProcessCurrRangeTsVsDelList(
             g, l, TruncatedRangeDelIteratorWrapper_Tombstone(l.range_del_iter))
    ELSE LET ikey == InternalIteratorWrapper_key(l.values_iter)
             lp == [l EXCEPT !.values_parsed_ikey = ikey,
                             !.value_category = GetValueCategoryOfKey(ikey.type)]
         IN IF lp.value_category = "OTHER" THEN ValuesIterNext(g, lp)
            ELSE IF ~lp.range_del_iter.valid_
            THEN ProcessCurrValuesIterVsDelList(g, lp)
            ELSE LET range_ts ==
                         TruncatedRangeDelIteratorWrapper_Tombstone(lp.range_del_iter)
                     range_ts_vs_values_iter_key ==
                         CompareRangeTsToUserKey(range_ts, ikey.user_key)
                 IN CASE range_ts_vs_values_iter_key = "BEFORE" ->
                           ProcessCurrRangeTsVsDelList(g, lp, range_ts)
                      [] range_ts_vs_values_iter_key = "AFTER" ->
                           ProcessCurrValuesIterVsDelList(g, lp)
                      [] range_ts_vs_values_iter_key = "OVERLAP" ->
                           IF lp.value_category = "DEL_KEY"
                           THEN ValuesIterNext(g, lp)
                           ELSE IF range_ts.seq_ < ikey.sequence
                           THEN LET r == ProcessCurrValuesIterVsDelList(g, lp)
                                IN IF r.lc.new_csk_found_in_level
                                   THEN ProcessCurrRangeTsVsDelList(r.gc, r.lc, range_ts)
                                   ELSE r
                           ELSE ValuesIterNext(g, lp)
                      [] OTHER -> \* default: assert(0), return Status::Aborted()
                           [gc |-> g, lc |-> lp]

-----------------------------------------------------------------------------
(* Progress validation: InitState and ValidateItersProgress                *)
(* p is the file-scope state [value, range_del, range_ts, del_list]        *)

ClearedDelElement == DelElement(EmptySlice, EmptySlice)

ResetState(p) ==
    [p EXCEPT !.value = NoParsedIKey, !.range_del = EmptySlice,
              !.del_list = ClearedDelElement]

\* a level entry that leaves the progress-tracking state as it finds it
InitState_KeepsState(p, validate, g, l) == p

InitState(p, validate, g, l) ==
    IF ~validate THEN ResetState(p)
    ELSE [value |-> IF l.values_iter.valid_
                    THEN InternalIteratorWrapper_key(l.values_iter) ELSE NoParsedIKey,
          range_del |-> IF l.range_del_iter.valid_
                        THEN TruncatedRangeDelIteratorWrapper_key(l.range_del_iter)
                        ELSE EmptySlice,
          range_ts |-> IF l.range_del_iter.valid_
                       THEN TruncatedRangeDelIteratorWrapper_Tombstone(l.range_del_iter)
                       ELSE NoRangeTombstone,
          del_list |-> IF DelListIter_Valid(g.del_list, g.del_list_iter)
                       THEN g.del_list[g.del_list_iter] ELSE ClearedDelElement]

\* [p, progressed]: the tracking state after the comparison, and whether one
\* of the three iterators was seen to have moved
ValidateItersProgress(p, g, l) ==
    LET was_values_iter_invalid == p.value = NoParsedIKey
        values_iter_progressed ==
            IF l.values_iter.valid_
            THEN was_values_iter_invalid
                 \/ p.value # InternalIteratorWrapper_key(l.values_iter)
            ELSE ~was_values_iter_invalid
        was_range_del_iter_invalid == p.range_del = EmptySlice
        range_del_iter_progressed ==
            IF l.range_del_iter.valid_
            THEN was_range_del_iter_invalid
                 \/ p.range_ts # TruncatedRangeDelIteratorWrapper_Tombstone(l.range_del_iter)
            ELSE ~was_range_del_iter_invalid
        was_del_list_iter_invalid == p.del_list = ClearedDelElement
        del_list_iter_progressed ==
            IF DelListIter_Valid(g.del_list, g.del_list_iter)
            THEN was_del_list_iter_invalid \/ p.del_list # g.del_list[g.del_list_iter]
            ELSE ~was_del_list_iter_invalid
    IN [p |-> [value |->
                   IF l.values_iter.valid_
                   THEN (IF values_iter_progressed
                         THEN InternalIteratorWrapper_key(l.values_iter) ELSE p.value)
                   ELSE NoParsedIKey,
               range_del |->
                   IF l.range_del_iter.valid_
                   THEN (IF range_del_iter_progressed
                         THEN TruncatedRangeDelIteratorWrapper_key(l.range_del_iter)
                         ELSE p.range_del)
                   ELSE EmptySlice,
               range_ts |->
                   IF l.range_del_iter.valid_
                   THEN (IF range_del_iter_progressed
                         THEN TruncatedRangeDelIteratorWrapper_Tombstone(l.range_del_iter)
                         ELSE p.range_ts)
                   ELSE NoRangeTombstone,
               del_list |->
                   IF DelListIter_Valid(g.del_list, g.del_list_iter)
                   THEN (IF del_list_iter_progressed
                         THEN g.del_list[g.del_list_iter] ELSE p.del_list)
                   ELSE ClearedDelElement],
        progressed |-> values_iter_progressed \/ range_del_iter_progressed
                         \/ del_list_iter_progressed]

-----------------------------------------------------------------------------
(* The superversion                                                        *)
(* Slot 1 is the mutable memtable, then the immutable memtables (newest    *)
(* first), the level-0 files (newest first) and the levels 1..MaxLevel.    *)
(* A slot holds [present, writes, status]: status is what the table        *)
(* iterator of the slot reports when it is read.  A superversion that is   *)
(* not materialised stands for any superversion: a query then meets an     *)
(* arbitrary content in each slot it opens.                                *)

Queries == {1, 2}

ImmSlot(i) == 1 + i
L0Slot(i) == 1 + MaxImm + i
LevelSlot(level) == 1 + MaxImm + MaxL0 + level

AbsentSlot ==
    [present |-> FALSE, status |-> "OK", values |-> <<>>, ranges |-> <<>>,
     newest |-> [k \in UserKeys |-> "none"]]

\* a table file whose iterator meets an I/O error: nothing of it is read
UnreadableSlot == [AbsentSlot EXCEPT !.present = TRUE, !.status = "IOError"]

\* the kind of the newest entry of user_key in one level ("none" when the
\* level holds no entry of it), entries of other types left aside
NewestInLevel(h, user_key) ==
    LET on == {i \in DOMAIN h :
                 \/ h[i].op \in {"kTypeValue", "kTypeMerge", "kTypeDeletion"}
                    /\ h[i].key = user_key
                 \/ h[i].op = "kTypeRangeDeletion"
                    /\ Compare(h[i].key, user_key) <= 0
                    /\ Compare(user_key, h[i].end) < 0}
        last == CHOOSE i \in on : \A j \in on : j <= i
    IN IF on = {} THEN "none"
       ELSE IF h[last].op \in {"kTypeValue", "kTypeMerge"} THEN "live" ELSE "dead"

\* the slot s holding the writes h
SlotOf(s, h) ==
    [present |-> TRUE, status |-> "OK",
     values |-> ValueRows(s, h), ranges |-> RangeRows(s, h),
     newest |-> [k \in UserKeys |-> NewestInLevel(h, k)]]

\* what each slot may hold: a memtable any writes, an immutable memtable and
\* a table file at least one
SlotTable ==
    [s \in 1..NumSlots |->
        IF s = 1 THEN {SlotOf(s, h) : h \in Histories(0)}
        ELSE IF s <= 1 + MaxImm THEN {SlotOf(s, h) : h \in Histories(1)}
        ELSE {SlotOf(s, h) : h \in Histories(1)} \cup {UnreadableSlot}]

\* refs counts the references queries hold on the superversion; writes are
\* the writes the mutable memtable holds, oldest first
AnySuperVersion == [materialised |-> FALSE, slots |-> <<>>, refs |-> 0, writes |-> <<>>]

\* the superversion whose slots hold the given writes (no writes: the
\* memtable is empty, any other slot absent)
SuperVersionOf(hs) ==
    [materialised |-> TRUE,
     slots |-> [s \in 1..NumSlots |->
                  IF s > 1 /\ hs[s] = <<>> THEN AbsentSlot ELSE SlotOf(s, hs[s])],
     refs |-> 0,
     writes |-> hs[1]]

\* the contents a query may meet in slot s, and whether the slot may be absent
SlotContents(s) == IF sv.materialised THEN {sv.slots[s]} \ {AbsentSlot} ELSE SlotTable[s]

SlotAbsent(s) == IF sv.materialised THEN sv.slots[s] = AbsentSlot ELSE s > 1

-----------------------------------------------------------------------------
(* What a scan of the levels read so far finds: per user key the kind of   *)
(* its newest entry ("none" while no level read holds the key), entries of *)
(* other types left aside; and the first status a wrapped iterator gave.   *)
(* mem_at_ref is the number of writes the mutable memtable held when the   *)
(* query took its reference to the superversion.                           *)

NoScan == [newest |-> [k \in UserKeys |-> "none"], iter_status |-> "OK", mem_at_ref |-> 0]

ScanLevel(sc, slot) ==
    [newest |-> [k \in UserKeys |->
                    IF sc.newest[k] # "none" THEN sc.newest[k]
                    ELSE slot.newest[k]],
     iter_status |-> IF sc.iter_status = "OK" THEN slot.status ELSE sc.iter_status,
     mem_at_ref |-> sc.mem_at_ref]

\* the smallest live user key at or after target, EmptySlice when none
SmallestLive(sc, target) ==
    LET live == {k \in UserKeys : sc.newest[k] = "live" /\ Compare(target, k) <= 0}
    IN IF live = {} THEN EmptySlice ELSE MinKey(live)

-----------------------------------------------------------------------------
(* State                                                                   *)

NoGlobalContext ==
    [target |-> EmptySlice, csk |-> EmptySlice, del_list |-> <<>>, del_list_iter |-> 1]

NoLevelContext ==
    [values_iter |-> InternalIteratorWrapper_New(<<>>, "OK", EmptySlice),
     range_del_iter |-> TruncatedRangeDelIteratorWrapper_New(FALSE, <<>>, EmptySlice),
     values_parsed_ikey |-> NoParsedIKey,
     value_category |-> "NONE",
     new_csk_found_in_level |-> FALSE]

At(at, phase, i) == [at |-> at, phase |-> phase, i |-> i]

Idle == At("idle", "none", 0)

NoReturn == [status |-> "OK", key |-> EmptySlice]

Prev == [value |-> prev_value, range_del |-> prev_range_del,
         range_ts |-> prev_range_ts, del_list |-> prev_del_list]

SetPrev(p) ==
    /\ prev_value' = p.value
    /\ prev_range_del' = p.range_del
    /\ prev_range_ts' = p.range_ts
    /\ prev_del_list' = p.del_list

InitCommon ==
    /\ loop_count = 0
    /\ prev_value = NoParsedIKey
    /\ prev_range_del = EmptySlice
    /\ prev_range_ts = NoRangeTombstone
    /\ prev_del_list = ClearedDelElement
    /\ pc = [q \in Queries |-> Idle]
    /\ gc = [q \in Queries |-> NoGlobalContext]
    /\ lc = [q \in Queries |-> NoLevelContext]
    /\ ret = [q \in Queries |-> NoReturn]
    /\ scan = [q \in Queries |-> NoScan]

Init ==
    /\ sv = AnySuperVersion
    /\ gs_validate_iters_progress = FALSE
    /\ InitCommon

-----------------------------------------------------------------------------
(* Actions                                                                 *)

\* DBImpl::GetSmallestAtOrAfter up to the first level: the superversion is
\* referenced and the GlobalContext built
StartQuery(q) ==
    /\ pc[q] = Idle
    /\ \E target \in Targets :
          gc' = [gc EXCEPT ![q] = [NoGlobalContext EXCEPT !.target = target]]
    /\ pc' = [pc EXCEPT ![q] = At("driver", "mem", 1)]
    /\ ret' = [ret EXCEPT ![q] = NoReturn]
    /\ sv' = [sv EXCEPT !.refs = @ + 1]
    /\ scan' = [scan EXCEPT ![q] = [NoScan EXCEPT !.mem_at_ref = Len(sv.writes)]]
    /\ UNCHANGED <<gs_validate_iters_progress, loop_count, prev_value,
                   prev_range_del, prev_range_ts, prev_del_list, lc>>

\* a LevelContext whose iterators get no upper bound
NewLevelContext_NoUpperBound(g, slot, with_range_del_iter) ==
    [NoLevelContext EXCEPT
        !.values_iter = InternalIteratorWrapper_New(slot.values, slot.status, EmptySlice),
        !.range_del_iter = TruncatedRangeDelIteratorWrapper_New(
            with_range_del_iter /\ slot.ranges # <<>>, slot.ranges, EmptySlice)]

\* the LevelContext a level processor builds over the content of a slot
NewLevelContext(g, slot, with_range_del_iter) ==
    [NoLevelContext EXCEPT
        !.values_iter = InternalIteratorWrapper_New(slot.values, slot.status, g.csk),
        !.range_del_iter = TruncatedRangeDelIteratorWrapper_New(
            with_range_del_iter /\ slot.ranges # <<>>, slot.ranges, g.csk)]

\* a LevelContext is built over the content of a slot and ProcessLogLevel is
\* entered: the iterators are positioned and the progress state initialised
EnterLevel(q, phase, i, slot, with_range_del_iter) ==
    LET positioned == PositionIters(
            gc[q], NewLevelContext(gc[q], slot, with_range_del_iter))
    IN /\ gc' = [gc EXCEPT ![q] = positioned.gc]
       /\ lc' = [lc EXCEPT ![q] = positioned.lc]
       /\ loop_count' = 0
       /\ SetPrev(InitState(Prev, gs_validate_iters_progress,
                            positioned.gc, positioned.lc))
       /\ pc' = [pc EXCEPT ![q] = At("loop", phase, i)]
       /\ scan' = [scan EXCEPT ![q] = ScanLevel(@, slot)]
       /\ UNCHANGED <<sv, gs_validate_iters_progress, ret>>

Skip(q, phase, i) ==
    /\ pc' = [pc EXCEPT ![q] = At("driver", phase, i)]
    /\ UNCHANGED <<sv, gs_validate_iters_progress, loop_count, prev_value,
                   prev_range_del, prev_range_ts, prev_del_list, gc, lc, ret, scan>>

ProcessMutableMemtable(q) ==
    /\ pc[q] = At("driver", "mem", 1)
    /\ \E slot \in SlotContents(1) :
          EnterLevel(q, "mem", 1, slot, TRUE)

ProcessImmutableMemtables(q) ==
    /\ pc[q].at = "driver" /\ pc[q].phase = "imm"
    /\ LET i == pc[q].i
       IN \/ /\ i <= MaxImm /\ ret[q].status = "OK"
             /\ \E slot \in SlotContents(ImmSlot(i)) :
                   EnterLevel(q, "imm", i, slot, TRUE)
          \/ /\ \/ i > MaxImm
                \/ ret[q].status # "OK"
                \/ SlotAbsent(ImmSlot(i))
             /\ Skip(q, "l0", 1)

ProcessLevel0Files(q) ==
    /\ pc[q].at = "driver" /\ pc[q].phase = "l0"
    /\ LET i == pc[q].i
       IN \/ /\ i <= MaxL0 /\ ret[q].status = "OK"
             /\ \E slot \in SlotContents(L0Slot(i)) :
                   EnterLevel(q, "l0", i, slot, TRUE)
          \/ /\ \/ i > MaxL0
                \/ ret[q].status # "OK"
                \/ SlotAbsent(L0Slot(i))
             /\ Skip(q, "gt0", 1)

\* levels 1 and up get no range-tombstone iterator
ProcessLevelsGt0(q) ==
    /\ pc[q].at = "driver" /\ pc[q].phase = "gt0"
    /\ LET level == pc[q].i
       IN \/ /\ level <= MaxLevel /\ ret[q].status = "OK"
             /\ \E slot \in SlotContents(LevelSlot(level)) :
                   EnterLevel(q, "gt0", level, slot, FALSE)
          \/ /\ level <= MaxLevel /\ ret[q].status = "OK"
             /\ SlotAbsent(LevelSlot(level))
             /\ Skip(q, "gt0", level + 1)
          \/ /\ level > MaxLevel \/ ret[q].status # "OK"
             /\ Skip(q, "cleanup", 0)

\* the values the validation at the top of an iteration works with
Validation(q) ==
    IF gs_validate_iters_progress /\ loop_count + 1 # 1
    THEN ValidateItersProgress(Prev, gc[q], lc[q])
    ELSE [p |-> Prev, progressed |-> TRUE]

\* the iteration reaches the default branch of the switch of ProcessLogLevel:
\* the comparison of the range tombstone with the key of the entry gave a
\* value the switch has no case for
ReachesDefaultBranch(g, l) ==
    /\ l.values_iter.valid_
    /\ l.range_del_iter.valid_
    /\ LET ikey == InternalIteratorWrapper_key(l.values_iter)
       IN /\ GetValueCategoryOfKey(ikey.type) # "OTHER"
          /\ CompareRangeTsToUserKey(
                 TruncatedRangeDelIteratorWrapper_Tombstone(l.range_del_iter),
                 ikey.user_key) \notin RelativePositions

\* where the level processor of phase p.phase goes on when ProcessLogLevel
\* has returned
AfterLevel(p) ==
    CASE p.phase = "mem" -> At("driver", "imm", 1)
      [] p.phase = "imm" -> At("driver", "imm", p.i + 1)
      [] p.phase = "l0" -> At("driver", "l0", p.i + 1)
      [] p.phase = "gt0" -> At("driver", "gt0", p.i + 1)

\* one iteration of the main loop of ProcessLogLevel; from the default branch
\* of its switch ProcessLogLevel returns Aborted
LoopIteration(q) ==
    /\ pc[q].at = "loop"
    /\ LoopCondition(lc[q])
    /\ loop_count' = IF loop_count < MaxLoopCount THEN loop_count + 1 ELSE loop_count
    /\ SetPrev(Validation(q).p)
    /\ IF ReachesDefaultBranch(gc[q], lc[q])
       THEN /\ ret' = [ret EXCEPT ![q].status = "Aborted"]
            /\ lc' = [lc EXCEPT ![q] = NoLevelContext]
            /\ pc' = [pc EXCEPT ![q] = AfterLevel(pc[q])]
            /\ UNCHANGED <<sv, gs_validate_iters_progress, gc, scan>>
       ELSE /\ LET r == LoopBody(gc[q], lc[q])
               IN /\ gc' = [gc EXCEPT ![q] = r.gc]
                  /\ lc' = [lc EXCEPT ![q] = r.lc]
            /\ UNCHANGED <<sv, gs_validate_iters_progress, pc, ret, scan>>

\* the assert(0) of ValidateItersProgress in a build that keeps assertions
NoProgressAbort(q) ==
    /\ pc[q].at = "loop"
    /\ LoopCondition(lc[q])
    /\ ~Validation(q).progressed
    /\ pc' = [pc EXCEPT ![q] = At("aborted", pc[q].phase, pc[q].i)]
    /\ UNCHANGED <<sv, gs_validate_iters_progress, loop_count, prev_value,
                   prev_range_del, prev_range_ts, prev_del_list, gc, lc, ret, scan>>

\* a level processor that processes its level again
LeaveLevel_SameLevel(q) ==
    /\ pc[q].at = "loop"
    /\ ~LoopCondition(lc[q])
    /\ ret' = [ret EXCEPT ![q].status = "OK"]
    /\ lc' = [lc EXCEPT ![q] = NoLevelContext]
    /\ pc' = [pc EXCEPT ![q] = At("driver", pc[q].phase, pc[q].i)]
    /\ UNCHANGED <<sv, gs_validate_iters_progress, loop_count, prev_value,
                   prev_range_del, prev_range_ts, prev_del_list, gc, scan>>

\* the main loop ends: ProcessLogLevel returns OK and the LevelContext of the
\* level is destroyed
LeaveLevel(q) ==
    /\ pc[q].at = "loop"
    /\ ~LoopCondition(lc[q])
    /\ ret' = [ret EXCEPT ![q].status = "OK"]
    /\ lc' = [lc EXCEPT ![q] = NoLevelContext]
    /\ pc' = [pc EXCEPT ![q] =
                 CASE pc[q].phase = "mem" -> At("driver", "imm", 1)
                   [] pc[q].phase = "imm" -> At("driver", "imm", pc[q].i + 1)
                   [] pc[q].phase = "l0" -> At("driver", "l0", pc[q].i + 1)
                   [] pc[q].phase = "gt0" -> At("driver", "gt0", pc[q].i + 1)]
    /\ UNCHANGED <<sv, gs_validate_iters_progress, loop_count, prev_value,
                   prev_range_del, prev_range_ts, prev_del_list, gc, scan>>

\* a return that keeps the reference to the superversion
Return_NoRelease(q) ==
    /\ pc[q] = At("driver", "cleanup", 0)
    /\ ret' = [ret EXCEPT ![q] =
                  IF gc[q].csk = EmptySlice
                  THEN [status |-> "NotFound", key |-> EmptySlice]
                  ELSE [status |-> ret[q].status, key |-> gc[q].csk]]
    /\ pc' = [pc EXCEPT ![q] = At("done", "none", 0)]
    /\ UNCHANGED <<sv, gs_validate_iters_progress, loop_count, prev_value,
                   prev_range_del, prev_range_ts, prev_del_list, gc, lc, scan>>

\* the end of DBImpl::GetSmallestAtOrAfter: the superversion is released and
\* the result returned
Return(q) ==
    /\ pc[q] = At("driver", "cleanup", 0)
    /\ ret' = [ret EXCEPT ![q] =
                  IF gc[q].csk = EmptySlice
                  THEN [status |-> "NotFound", key |-> EmptySlice]
                  ELSE [status |-> ret[q].status, key |-> gc[q].csk]]
    /\ sv' = [sv EXCEPT !.refs = @ - 1]
    /\ pc' = [pc EXCEPT ![q] = At("done", "none", 0)]
    /\ UNCHANGED <<gs_validate_iters_progress, loop_count, prev_value,
                   prev_range_del, prev_range_ts, prev_del_list, gc, lc, scan>>

QueryStep(q) ==
    \/ StartQuery(q)
    \/ ProcessMutableMemtable(q)
    \/ ProcessImmutableMemtables(q)
    \/ ProcessLevel0Files(q)
    \/ ProcessLevelsGt0(q)
    \/ LoopIteration(q)
    \/ LeaveLevel(q)
    \/ Return(q)

Next == QueryStep(1)

Spec == Init /\ [][Next]_vars

-----------------------------------------------------------------------------
(* Two queries run concurrently against one superversion, in a build that  *)
(* keeps assertions when the validation flag is set.                       *)

Write(op, key, end) == [op |-> op, key |-> key, end |-> end]

\* the writes of a store, by kind of level: the memtable, an immutable
\* memtable, a level-0 file and a level >= 1
ConcurrentStores ==
    {[mem |-> <<Write("kTypeRangeDeletion", <<97>>, <<98>>)>>,
      imm |-> <<Write("kTypeRangeDeletion", <<97>>, <<98>>)>>,
      l0 |-> <<>>, l1 |-> <<>>],
     [mem |-> <<Write("kTypeDeletion", <<97, 1>>, EmptySlice)>>,
      imm |-> <<Write("kTypeValue", <<98>>, EmptySlice)>>,
      l0 |-> <<Write("kTypeValue", <<97, 1>>, EmptySlice),
               Write("kTypeValue", <<98>>, EmptySlice)>>,
      l1 |-> <<Write("kTypeValue", <<97>>, EmptySlice),
               Write("kTypeRangeDeletion", <<97>>, <<98>>)>>],
     [mem |-> <<Write("kTypeDeletion", <<97>>, EmptySlice)>>,
      imm |-> <<>>, l0 |-> <<>>,
      l1 |-> <<Write("kTypeValue", <<97>>, EmptySlice),
               Write("kTypeMerge", <<98>>, EmptySlice)>>],
     [mem |-> <<Write("kTypeRangeDeletion", <<97>>, <<98>>),
                Write("kTypeValue", <<97>>, EmptySlice),
                Write("kTypeDeletion", <<97>>, EmptySlice)>>,
      imm |-> <<>>, l0 |-> <<>>, l1 |-> <<>>],
     [mem |-> <<Write("kTypeRangeDeletion", <<97, 1>>, <<98>>)>>,
      imm |-> <<Write("kTypeRangeDeletion", <<97>>, <<97, 1>>)>>,
      l0 |-> <<>>,
      l1 |-> <<Write("kTypeValue", <<98>>, EmptySlice)>>]}

StoreWrites(store) ==
    [s \in 1..NumSlots |->
        IF s = 1 THEN store.mem
        ELSE IF s <= ImmSlot(MaxImm) THEN store.imm
        ELSE IF s <= L0Slot(MaxL0) THEN store.l0
        ELSE store.l1]

InitConc ==
    /\ sv \in {SuperVersionOf(StoreWrites(store)) : store \in ConcurrentStores}
    /\ gs_validate_iters_progress \in BOOLEAN
    /\ InitCommon

NextConc == \E q \in Queries : QueryStep(q) \/ NoProgressAbort(q)

SpecConc == InitConc /\ [][NextConc]_vars

-----------------------------------------------------------------------------
(* GetSmallestAtOrAfter as a function of the store and the target: what a  *)
(* query returns when nothing else runs.                                   *)

\* the main loop of ProcessLogLevel, cut off after fuel iterations
RECURSIVE RunLoop(_, _, _)
RunLoop(g, l, fuel) ==
    IF ~LoopCondition(l) THEN [gc |-> g, ended |-> TRUE]
    ELSE IF fuel = 0 THEN [gc |-> g, ended |-> FALSE]
    ELSE LET r == LoopBody(g, l) IN RunLoop(r.gc, r.lc, fuel - 1)

\* ProcessLogLevel over the content of a slot
RunLevel(g, slot, with_range_del_iter) ==
    LET positioned == PositionIters(g, NewLevelContext(g, slot, with_range_del_iter))
    IN RunLoop(positioned.gc, positioned.lc, MaxRunIterations)

\* the levels from slot s on, in the order of the driver: the list of
\* immutable memtables and the list of level-0 files end at the first absent
\* slot, an empty level >= 1 is passed over
RECURSIVE RunLevels(_, _, _)
RunLevels(g, slots, s) ==
    IF s > NumSlots THEN [gc |-> g, ended |-> TRUE]
    ELSE IF slots[s] = AbsentSlot
    THEN RunLevels(g, slots, IF s <= ImmSlot(MaxImm) THEN L0Slot(1)
                             ELSE IF s <= L0Slot(MaxL0) THEN LevelSlot(1)
                             ELSE s + 1)
    ELSE LET r == RunLevel(g, slots[s], s < LevelSlot(1))
         IN IF r.ended THEN RunLevels(r.gc, slots, s + 1) ELSE r

\* what the query returns; NoReturn when a main loop does not end
QueryResult(slots, target) ==
    LET r == RunLevels([NoGlobalContext EXCEPT !.target = target], slots, 1)
    IN IF ~r.ended THEN NoReturn
       ELSE IF r.gc.csk = EmptySlice THEN [status |-> "NotFound", key |-> EmptySlice]
       ELSE [status |-> "OK", key |-> r.gc.csk]

-----------------------------------------------------------------------------
(* A query runs while a writer writes to the mutable memtable.             *)

\* the position of a memtable iterator after an entry was inserted: it stays
\* on the entry it stood on, or past the end
LiveValuesIter(it, rows) ==
    [it EXCEPT !.rows = rows,
               !.pos = IF it.pos <= Len(it.rows)
                       THEN CHOOSE i \in 1..Len(rows) : rows[i] = it.rows[it.pos]
                       ELSE Len(rows) + 1]

\* a write (Put, Merge, Delete, DeleteRange) reaches the mutable memtable;
\* the values iterator of a query inside the memtable walks the live table
Writer(w) ==
    /\ sv.materialised
    /\ Len(sv.writes) < MaxLevelWrites
    /\ LET mem == SlotOf(1, Append(sv.writes, w))
       IN /\ sv' = [sv EXCEPT !.writes = Append(@, w), !.slots[1] = mem]
          /\ lc' = [q \in Queries |->
                       IF pc[q].at = "loop" /\ pc[q].phase = "mem"
                       THEN [lc[q] EXCEPT !.values_iter = LiveValuesIter(@, mem.values)]
                       ELSE lc[q]]
    /\ UNCHANGED <<gs_validate_iters_progress, loop_count, prev_value,
                   prev_range_del, prev_range_ts, prev_del_list, pc, gc, ret, scan>>

InitWrite ==
    /\ sv \in {SuperVersionOf(StoreWrites(store)) : store \in ConcurrentStores}
    /\ gs_validate_iters_progress = FALSE
    /\ InitCommon

NextWrite == QueryStep(1) \/ \E w \in WriteOps : Writer(w)

SpecWrite == InitWrite /\ [][NextWrite]_vars

\* the slots of the superversion as they were when query q took its reference
SlotsAtRef(q) ==
    [sv.slots EXCEPT ![1] = SlotOf(1, SubSeq(sv.writes, 1, scan[q].mem_at_ref))]

-----------------------------------------------------------------------------
(* Two queries run one after the other against one superversion, in a      *)
(* build that keeps assertions: the second starts when the first returned. *)

OlderWrites(first, second) == {<<>>, <<first>>, <<first, second>>}

SeqStores ==
    {[mem |-> mem, imm |-> imm, l0 |-> <<>>, l1 |-> l1] :
        mem \in Histories(0),
        imm \in OlderWrites(Write("kTypeRangeDeletion", <<97>>, <<98>>),
                            Write("kTypeValue", <<97, 1>>, EmptySlice)),
        l1 \in OlderWrites(Write("kTypeValue", <<98>>, EmptySlice),
                           Write("kTypeValue", <<97>>, EmptySlice))}

InitSeq ==
    /\ sv \in {SuperVersionOf(StoreWrites(store)) : store \in SeqStores}
    /\ gs_validate_iters_progress \in BOOLEAN
    /\ InitCommon

\* a step of query q; an iteration the validation finds without progress
\* fails the assertion instead
CheckedQueryStep(q) ==
    \/ StartQuery(q)
    \/ ProcessMutableMemtable(q)
    \/ ProcessImmutableMemtables(q)
    \/ ProcessLevel0Files(q)
    \/ ProcessLevelsGt0(q)
    \/ Validation(q).progressed /\ LoopIteration(q)
    \/ NoProgressAbort(q)
    \/ LeaveLevel(q)
    \/ Return(q)

NextSeq ==
    \/ CheckedQueryStep(1)
    \/ pc[1].at = "done" /\ CheckedQueryStep(2)

SpecSeq == InitSeq /\ [][NextSeq]_vars

-----------------------------------------------------------------------------
(* The range-tombstone adapter on its own: a caller applies SeekToFirst,     *)
(* Seek, Next and SetUpperBound in any order to the adapter held in the      *)
(* LevelContext of query 1.                                                  *)

\* the histories that hold range deletions only
RangeHistories ==
    {h \in Histories(0) : \A i \in DOMAIN h : h[i].op = "kTypeRangeDeletion"}

InitRangeDelIter ==
    /\ sv = AnySuperVersion
    /\ gs_validate_iters_progress = FALSE
    /\ loop_count = 0
    /\ prev_value = NoParsedIKey
    /\ prev_range_del = EmptySlice
    /\ prev_range_ts = NoRangeTombstone
    /\ prev_del_list = ClearedDelElement
    /\ pc = [q \in Queries |-> Idle]
    /\ gc = [q \in Queries |-> NoGlobalContext]
    /\ ret = [q \in Queries |-> NoReturn]
    /\ scan = [q \in Queries |-> NoScan]
    /\ \E wrapped \in BOOLEAN, h \in RangeHistories, upper_bound \in Targets :
          lc = [q \in Queries |->
                   IF q = 1
                   THEN [NoLevelContext EXCEPT !.range_del_iter =
                            TruncatedRangeDelIteratorWrapper_New(
                                wrapped, IF wrapped THEN RangeRows(1, h) ELSE <<>>,
                                upper_bound)]
                   ELSE NoLevelContext]

SetRangeDelIter(it) ==
    /\ lc' = [lc EXCEPT ![1].range_del_iter = it]
    /\ UNCHANGED <<sv, gs_validate_iters_progress, loop_count, prev_value,
                   prev_range_del, prev_range_ts, prev_del_list, pc, gc, ret, scan>>

RangeDelIter_SeekToFirst ==
    SetRangeDelIter(TruncatedRangeDelIteratorWrapper_SeekToFirst(lc[1].range_del_iter))

RangeDelIter_Seek ==
    \E target \in UserKeys :
        SetRangeDelIter(TruncatedRangeDelIteratorWrapper_Seek(lc[1].range_del_iter, target))

\* Next() of the wrapped iterator needs it valid
RangeDelIter_Next ==
    /\ lc[1].range_del_iter.wrapped_iter_ptr_
    /\ WrappedRangeDelValid(lc[1].range_del_iter)
    /\ SetRangeDelIter(TruncatedRangeDelIteratorWrapper_Next(lc[1].range_del_iter))

RangeDelIter_SetUpperBound ==
    \E upper_bound \in UserKeys :
        SetRangeDelIter(TruncatedRangeDelIteratorWrapper_SetUpperBound(
                            lc[1].range_del_iter, upper_bound))

NextRangeDelIter ==
    \/ RangeDelIter_Next
    \/ RangeDelIter_SeekToFirst
    \/ RangeDelIter_Seek
    \/ RangeDelIter_SetUpperBound

SpecRangeDelIter == InitRangeDelIter /\ [][NextRangeDelIter]_vars

-----------------------------------------------------------------------------
(* Properties                                                              *)

Done(q) == pc[q].at = "done"

InLoop(q) == pc[q].at = "loop" /\ LoopCondition(lc[q])

\* C1: a query that met no iterator error returns the smallest user key at
\* or after its target whose newest entry is a value or a merge (and
\* NotFound with an empty key when there is none): the answer of a naive
\* scan of the whole store
C1_ReturnsSmallestLive ==
    \A q \in Queries :
        Done(q) /\ scan[q].iter_status = "OK" =>
            /\ ret[q].key = SmallestLive(scan[q], gc[q].target)
            /\ ret[q].status = IF ret[q].key = EmptySlice THEN "NotFound" ELSE "OK"

\* C2: the main loop of ProcessLogLevel exits: no iteration leaves the
\* contexts of the query exactly as it found them, which the loop would then
\* repeat without end
C2_LoopExits ==
    \A q \in Queries :
        InLoop(q) => LoopBody(gc[q], lc[q]) # [gc |-> gc[q], lc |-> lc[q]]

\* whether the step moves one of the three iterators of query q to a later
\* position, or sets new_csk_found_in_level
ItersProgress(q) ==
    LET vi == lc[q].values_iter
        ri == lc[q].range_del_iter
        di == gc[q].del_list_iter
    IN \/ lc'[q].new_csk_found_in_level
       \/ vi.valid_ /\ (~lc'[q].values_iter.valid_ \/ lc'[q].values_iter.pos > vi.pos)
       \/ ri.valid_ /\ (~lc'[q].range_del_iter.valid_ \/ lc'[q].range_del_iter.pos > ri.pos)
       \/ /\ DelListIter_Valid(gc[q].del_list, di)
          /\ \/ ~DelListIter_Valid(gc'[q].del_list, gc'[q].del_list_iter)
             \/ Compare(gc'[q].del_list[gc'[q].del_list_iter].user_start_key,
                        gc[q].del_list[di].user_start_key) > 0

\* C3: every iteration of the main loop moves the values iterator, the
\* range-tombstone iterator or the deletion-list cursor to a strictly later
\* position, or sets new_csk_found_in_level
C3_EveryIterationProgresses ==
    [][\A q \in Queries : LoopIteration(q) => ItersProgress(q)]_vars

\* C4: a query during which a wrapped iterator reported a non-OK status
\* returns that status
C4_ReturnsIteratorStatus ==
    \A q \in Queries :
        Done(q) /\ scan[q].iter_status # "OK" => ret[q].status = scan[q].iter_status

\* C5: NotFound with an empty key is returned exactly when the CSK is empty
\* after the last level, which is exactly when no key at or after the target
\* is live
C5_NotFoundIffNoLiveKey ==
    \A q \in Queries :
        Done(q) /\ scan[q].iter_status = "OK" =>
            /\ (ret[q].status = "NotFound" /\ ret[q].key = EmptySlice)
                  <=> gc[q].csk = EmptySlice
            /\ gc[q].csk = EmptySlice
                  <=> SmallestLive(scan[q], gc[q].target) = EmptySlice

\* C6: a non-empty key returned for a non-empty target is not below the target
C6_TargetNotAboveResult ==
    \A q \in Queries :
        Done(q) /\ gc[q].target # EmptySlice /\ ret[q].key # EmptySlice =>
            Compare(gc[q].target, ret[q].key) <= 0

\* a query returned a key for a non-empty target although the store holds a
\* live key below the target
C6_Witness ==
    /\ Done(1) /\ gc[1].target # EmptySlice /\ ret[1].key # EmptySlice
    /\ \E k \in UserKeys : scan[1].newest[k] = "live" /\ Compare(k, gc[1].target) < 0

\* C7: once set, the CSK of a query is never cleared and never grows
C7_CskNonIncreasing ==
    [][\A q \in Queries :
          gc[q].csk # EmptySlice /\ pc[q].at # "idle" =>
              /\ gc'[q].csk # EmptySlice
              /\ Compare(gc'[q].csk, gc[q].csk) <= 0]_vars

\* a level built under an earlier CSK found a new, different CSK
C7_Witness ==
    /\ lc[1].new_csk_found_in_level
    /\ lc[1].values_iter.upper_bound_ # EmptySlice
    /\ gc[1].csk # lc[1].values_iter.upper_bound_

\* whether del_elem lies wholly before the start of next_elem
StrictlyBefore(del_elem, next_elem) ==
    /\ Compare(del_elem.user_start_key, next_elem.user_start_key) < 0
    /\ IsRange(del_elem) =>
          Compare(del_elem.user_end_key, next_elem.user_start_key) <= 0

\* C8: the deletion list is strictly ascending by start key and no two of
\* its elements overlap
C8_DelListOrderedAndDisjoint ==
    \A q \in Queries :
        \A i \in 1..(Len(gc[q].del_list) - 1) :
            StrictlyBefore(gc[q].del_list[i], gc[q].del_list[i + 1])

\* the last key an element covers is below upper_bound
EndsBelow(del_elem, upper_bound) ==
    IF IsRange(del_elem) THEN Compare(del_elem.user_end_key, upper_bound) <= 0
    ELSE Compare(del_elem.user_start_key, upper_bound) < 0

\* C9: every element of the deletion list lies within [target, CSK)
C9_DelListWithinTargetAndCsk ==
    \A q \in Queries :
        \A i \in 1..Len(gc[q].del_list) :
            /\ Compare(gc[q].target, gc[q].del_list[i].user_start_key) <= 0
            /\ gc[q].csk # EmptySlice => EndsBelow(gc[q].del_list[i], gc[q].csk)

\* C10: a step of one query leaves alone the loop counter and the
\* progress-tracking state another query is using in its main loop
C10_QueriesShareNoState ==
    [][\A q \in Queries : \A o \in Queries \ {q} :
          pc[q].at = "loop" /\ (QueryStep(o) \/ NoProgressAbort(o)) =>
              UNCHANGED <<loop_count, prev_value, prev_range_del,
                          prev_range_ts, prev_del_list>>]_vars

\* C11: the result of a query is the result of GetSmallestAtOrAfter on the
\* store as it was when the query took its reference to the superversion,
\* whatever is written to the mutable memtable afterwards
C11_WritesAfterRefInvisible ==
    \A q \in Queries :
        Done(q) => ret[q] = QueryResult(SlotsAtRef(q), gc[q].target)

\* the slot a query stands at: the slot it is processing, or the first slot
\* it has not yet passed
SlotAtPc(p) ==
    CASE p.at = "idle" -> 1
      [] p.at \in {"done"} \/ p.phase = "cleanup" -> NumSlots + 1
      [] p.phase = "mem" -> 1
      [] p.phase = "imm" -> 1 + (IF p.i <= MaxImm THEN p.i ELSE MaxImm + 1)
      [] p.phase = "l0" -> 1 + MaxImm + (IF p.i <= MaxL0 THEN p.i ELSE MaxL0 + 1)
      [] p.phase = "gt0" -> 1 + MaxImm + MaxL0 + p.i

Finished(q) == pc[q].at \in {"done", "aborted"}

\* C14: a second run of the query with the same target against the same
\* store ends as the first did: it returns, with the same status and key
C14_SecondRunSameResult ==
    Done(1) /\ Finished(2) /\ gc[2].target = gc[1].target =>
        Done(2) /\ ret[2] = ret[1]

\* the second run returned a key after a first run that left a loop count
\* and progress-tracking state behind, the validation being on
C14_Witness ==
    /\ Done(1) /\ Done(2) /\ gc[2].target = gc[1].target
    /\ gs_validate_iters_progress
    /\ ret[2].key # EmptySlice
    /\ loop_count >= 2
    /\ prev_del_list # ClearedDelElement

\* target is at or below every user key of the store: of its values, point
\* tombstones and range-tombstone start keys
BelowEveryKey(target) ==
    \A s \in 1..NumSlots :
        /\ \A i \in 1..Len(sv.slots[s].values) :
              Compare(target, sv.slots[s].values[i].user_key) <= 0
        /\ \A i \in 1..Len(sv.slots[s].ranges) :
              Compare(target, sv.slots[s].ranges[i].start_key_) <= 0

\* C15: a query with an empty target ends as a query does whose target is at
\* or below every key of the store: same status, same key
C15_EmptyTargetIsLowestTarget ==
    /\ Done(1) /\ Finished(2)
    /\ gc[1].target = EmptySlice /\ gc[2].target # EmptySlice
    /\ BelowEveryKey(gc[2].target)
    => Done(2) /\ ret[2] = ret[1]

\* both queries returned a key of a store whose smallest key is not the
\* smallest key there is, the second for a target that is that smallest key
C15_Witness ==
    /\ Done(1) /\ Done(2)
    /\ gc[1].target = EmptySlice /\ gc[2].target = <<97, 1>>
    /\ BelowEveryKey(gc[2].target)
    /\ ret[2].key # EmptySlice

\* the queries that hold their reference to the superversion: from
\* GetReferencedSuperVersion to CleanupSuperVersion
HoldsReference(p) == p.at \notin {"idle", "done"}

\* C16: every query takes one reference to the superversion before it
\* processes a level and gives it back once, after its last level, whatever
\* it returns; the iterators of a level are gone when it is given back
C16_OneReferencePerQuery ==
    [][\A q \in Queries :
          /\ sv'.refs = Cardinality({o \in Queries : HoldsReference(pc'[o])})
          /\ ~HoldsReference(pc[q]) /\ HoldsReference(pc'[q])
                => pc[q] = Idle /\ pc'[q] = At("driver", "mem", 1)
                   /\ sv'.refs = sv.refs + 1
          /\ HoldsReference(pc[q]) /\ ~HoldsReference(pc'[q])
                => pc[q] = At("driver", "cleanup", 0) /\ Done(q)'
                   /\ sv'.refs = sv.refs - 1
          /\ lc'[q] # NoLevelContext => HoldsReference(pc'[q]) /\ sv'.refs >= 1
          /\ lc'[q] # lc[q] \/ gc'[q] # gc[q] => HoldsReference(pc'[q]) \/ pc[q] = Idle
          /\ pc[q].at = "loop" => HoldsReference(pc'[q])]_vars

C16_Witness ==
    /\ Done(1) /\ Done(2) /\ sv.refs = 0
    /\ ret[1].status = "NotFound" /\ ret[2].status = "OK"
    /\ lc[1] = NoLevelContext /\ lc[2] = NoLevelContext

\* the newest point entry of user key k in slot s is a point deletion with a
\* sequence number above seq
NewerPointDeletion(s, k, seq) ==
    LET rows == sv.slots[s].values
        of_k == {i \in 1..Len(rows) : rows[i].user_key = k}
    IN /\ sv.slots[s] # AbsentSlot
       /\ of_k # {}
       /\ LET newest == rows[CHOOSE i \in of_k : \A j \in of_k : i <= j]
          IN newest.type = "kTypeDeletion" /\ newest.sequence > seq

\* the iteration of query q sets the CSK from the entry under its values
\* iterator
ChoosesCsk(q) ==
    /\ InLoop(q)
    /\ lc[q].values_iter.valid_
    /\ ~lc[q].new_csk_found_in_level
    /\ lc'[q].new_csk_found_in_level

\* C18: the CSK is never taken from an entry of a user key that is older
\* than a point deletion which is the newest entry of that key in the same
\* level or in a newer one, even when the main loop skipped that deletion
\* because it overlaps the current range tombstone of the level
C18_NoCskUnderPointDeletion ==
    [][\A q \in Queries :
          ChoosesCsk(q) =>
              LET V == InternalIteratorWrapper_key(lc[q].values_iter)
              IN /\ gc'[q].csk = V.user_key
                 /\ \A s \in 1..SlotAtPc(pc[q]) :
                        ~NewerPointDeletion(s, V.user_key, V.sequence)]_vars

\* the value and merge entries of user key k in the superversion
LiveEntries(k) ==
    {e \in UNION {{sv.slots[s].values[i] : i \in 1..Len(sv.slots[s].values)} :
                     s \in {t \in 1..NumSlots : sv.slots[t] # AbsentSlot}} :
        e.user_key = k /\ e.type \in {"kTypeValue", "kTypeMerge"}}

\* a range tombstone of a level >= 1 covers entry e and is newer than it
CoveredInLevelGt0(e) ==
    \E s \in LevelSlot(1)..NumSlots :
        /\ sv.slots[s] # AbsentSlot
        /\ \E j \in 1..Len(sv.slots[s].ranges) :
              LET R == sv.slots[s].ranges[j]
              IN /\ Compare(R.start_key_, e.user_key) <= 0
                 /\ Compare(e.user_key, R.end_key_) < 0
                 /\ R.seq_ > e.sequence

\* C19: the range tombstones of the levels >= 1 are honoured: the key a query
\* returns has a value or merge entry that no newer range tombstone of a
\* level >= 1 covers
C19_RangeTombstonesOfLevelsGt0Honoured ==
    \A q \in Queries :
        Done(q) /\ ret[q].key # EmptySlice =>
            \E e \in LiveEntries(ret[q].key) : ~CoveredInLevelGt0(e)

\* the levels query q has processed to their end
ProcessedSlots(q) ==
    {s \in 1..NumSlots : s < SlotAtPc(pc[q]) /\ sv.slots[s] # AbsentSlot}

\* the user keys with a point entry, of whatever type, in a processed level
KeysOfProcessedLevels(q) ==
    UNION {{sv.slots[s].values[i].user_key : i \in 1..Len(sv.slots[s].values)} :
              s \in ProcessedSlots(q)}

\* query q is between two levels, or past the last one
LevelEnded(q) == pc[q].at \in {"driver", "done"} /\ ProcessedSlots(q) # {}

\* C17: when a level has ended, every user key at or after the target and
\* below the CSK (at or after the target when there is no CSK) with an entry
\* of any type in a processed level is covered by an element of the deletion
\* list
C17_KeysBelowCskCovered ==
    \A q \in Queries :
        LevelEnded(q) =>
            \A k \in KeysOfProcessedLevels(q) :
                /\ Compare(gc[q].target, k) <= 0
                /\ gc[q].csk # EmptySlice => Compare(k, gc[q].csk) < 0
                => \E i \in 1..Len(gc[q].del_list) : Contains(gc[q].del_list[i], k)

\* user key k is covered by an element of the deletion list of g
CoveredByDelList(g, k) ==
    \E i \in 1..Len(g.del_list) : Contains(g.del_list[i], k)

\* the iteration of query q finds the CSK at a value or merge entry that
\* overlaps the current range tombstone of the level, which is older
CskFoundOverOlderRangeTs(q) ==
    /\ ChoosesCsk(q)
    /\ lc[q].range_del_iter.valid_
    /\ LET V == InternalIteratorWrapper_key(lc[q].values_iter)
           R == TruncatedRangeDelIteratorWrapper_Tombstone(lc[q].range_del_iter)
       IN /\ GetValueCategoryOfKey(V.type) \in {"VALUE", "MERGE_VALUE"}
          /\ CompareRangeTsToUserKey(R, V.user_key) = "OVERLAP"
          /\ R.seq_ < V.sequence

AddedDelElements(q) ==
    {gc'[q].del_list[i] : i \in 1..Len(gc'[q].del_list)}
        \ {gc[q].del_list[i] : i \in 1..Len(gc[q].del_list)}

\* C21: every range element a loop iteration adds to the deletion list, or
\* merges into it, ends at or below the CSK in force after the iteration: the
\* range tombstones are clipped at the CSK, the one folded in after UpdateCSK
\* included
C21_RangeTsClippedAtCsk ==
    [][\A q \in Queries :
          InLoop(q) /\ gc'[q].csk # EmptySlice =>
              \A del_elem \in AddedDelElements(q) :
                  IsRange(del_elem) =>
                      Compare(del_elem.user_end_key, gc'[q].csk) <= 0]_vars

\* the range-tombstone iterator of query q as ProcessCurrRangeTsVsDelList
\* finds it when the iteration folds the older range tombstone in: UpdateCSK
\* has set its upper bound to the user key of the value
RangeDelIterAtFoldIn(q) ==
    TruncatedRangeDelIteratorWrapper_SetUpperBound(
        lc[q].range_del_iter,
        InternalIteratorWrapper_key(lc[q].values_iter).user_key)

\* C22: the range-tombstone iterator is Valid whenever a loop iteration
\* enters ProcessCurrRangeTsVsDelList, which is also where Next() is called
\* on it: with the values iterator exhausted, with the tombstone before the
\* value, and right after UpdateCSK when the older tombstone is folded in
C22_RangeDelIterValidWhenUsed ==
    [][\A q \in Queries :
          /\ InLoop(q) /\ ~lc[q].values_iter.valid_ => lc[q].range_del_iter.valid_
          /\ CskFoundOverOlderRangeTs(q) => RangeDelIterAtFoldIn(q).valid_]_vars

\* C23: the CSK changes only in a loop iteration, and the level ends with the
\* iteration that changes it: the values iterator stays where it is and no
\* further iteration runs; the iterators of every level are built with the
\* CSK of that moment as upper bound, and every entry and range tombstone a
\* level examines lies below the CSK
C23_CskOncePerLevelAndBoundsOlderLevels ==
    [][\A q \in Queries :
          /\ gc'[q].csk # gc[q].csk =>
                /\ InLoop(q)
                /\ lc'[q].new_csk_found_in_level
                /\ ~LoopCondition(lc'[q])
                /\ lc'[q].values_iter = lc[q].values_iter
          /\ pc[q].at = "loop" /\ lc[q].new_csk_found_in_level => pc'[q].at # "loop"
          /\ pc[q].at = "driver" /\ pc'[q].at = "loop" =>
                /\ lc'[q].values_iter.upper_bound_ = gc[q].csk
                /\ lc'[q].range_del_iter.upper_bound_ = gc[q].csk
          /\ pc'[q].at = "loop" /\ LoopCondition(lc'[q]) /\ gc'[q].csk # EmptySlice =>
                /\ lc'[q].values_iter.valid_ =>
                      Compare(InternalIteratorWrapper_key(lc'[q].values_iter).user_key,
                              gc'[q].csk) < 0
                /\ lc'[q].range_del_iter.valid_ =>
                      Compare(TruncatedRangeDelIteratorWrapper_key(lc'[q].range_del_iter),
                              gc'[q].csk) < 0]_vars

\* a level older than the one that set the CSK examines an entry, and sets a
\* lower CSK
C23_Witness ==
    \E q \in Queries :
        /\ pc[q].at = "loop" /\ pc[q].phase # "mem"
        /\ lc[q].new_csk_found_in_level
        /\ lc[q].values_iter.upper_bound_ # EmptySlice
        /\ Compare(gc[q].csk, lc[q].values_iter.upper_bound_) < 0
        /\ lc[q].values_iter.valid_

\* C24: a values iterator with an upper bound is Valid exactly when the
\* wrapped iterator is valid and the user key of its entry is below the
\* bound in user-key order, a user key that is a proper prefix of the bound
\* included
C24_ValuesIterValidIffUserKeyBelowBound ==
    \A q \in Queries :
        LET it == lc[q].values_iter
        IN pc[q].at = "loop" /\ InternalIteratorWrapper_HasUpperBound(it) =>
               (it.valid_ <=>
                   /\ WrappedValuesValid(it)
                   /\ Compare(it.rows[it.pos].user_key, it.upper_bound_) < 0)

\* C25: a Valid range-tombstone adapter stands on a tombstone of the wrapped
\* iterator that starts below the upper bound, and its Tombstone() is that
\* tombstone with the same start and sequence number and with the end
\* replaced by the bound when it exceeds the bound; an adapter whose wrapped
\* iterator is absent, exhausted or on a tombstone that starts at or above
\* the bound is not Valid
C25_RangeDelIterClippedAtBound ==
    \A q \in Queries :
        LET it == lc[q].range_del_iter
            has_bound == TruncatedRangeDelIteratorWrapper_HasUpperBound(it)
            usable == it.wrapped_iter_ptr_ /\ WrappedRangeDelValid(it)
        IN /\ it.valid_ =>
                 /\ usable
                 /\ LET raw == it.rows[it.pos]
                        ts == TruncatedRangeDelIteratorWrapper_Tombstone(it)
                    IN /\ ts.start_key_ = raw.start_key_
                       /\ ts.seq_ = raw.seq_
                       /\ ~has_bound => ts.end_key_ = raw.end_key_
                       /\ has_bound =>
                             /\ Compare(ts.start_key_, it.upper_bound_) < 0
                             /\ Compare(ts.end_key_, it.upper_bound_) <= 0
                             /\ ts.end_key_ =
                                   IF Compare(raw.end_key_, it.upper_bound_) > 0
                                   THEN it.upper_bound_ ELSE raw.end_key_
           /\ \/ ~usable
              \/ has_bound /\ Compare(it.rows[it.pos].start_key_, it.upper_bound_) >= 0
              => ~it.valid_

\* a Valid adapter on a tombstone that reaches past the upper bound
C25_Witness ==
    LET it == lc[1].range_del_iter
    IN /\ it.valid_
       /\ TruncatedRangeDelIteratorWrapper_HasUpperBound(it)
       /\ Compare(it.rows[it.pos].end_key_, it.upper_bound_) > 0

\* C26: a range-tombstone adapter built over no iterator is never Valid in a
\* level, whatever was called on it, and an iteration of the main loop over
\* such a level has a valid values iterator: the branches of the loop that
\* call Tombstone() or Next() on the adapter, all behind a test of its
\* validity or of the values iterator being exhausted, are not taken
C26_NullRangeDelIterNeverUsed ==
    \A q \in Queries :
        pc[q].at = "loop" /\ ~lc[q].range_del_iter.wrapped_iter_ptr_ =>
            /\ ~lc[q].range_del_iter.valid_
            /\ LoopCondition(lc[q]) => lc[q].values_iter.valid_

\* a level >= 1 that holds range tombstones has set the CSK, and with it the
\* upper bound of its adapter
C26_Witness ==
    \E q \in Queries :
        /\ pc[q].at = "loop" /\ pc[q].phase = "gt0"
        /\ ~lc[q].range_del_iter.wrapped_iter_ptr_
        /\ lc[q].range_del_iter.rows # <<>>
        /\ lc[q].new_csk_found_in_level
        /\ lc[q].range_del_iter.upper_bound_ = gc[q].csk

\* the iteration of query q takes the values iterator past a point deletion
\* that the current range tombstone of the level does not overlap
PassesPointDeletion(q) ==
    /\ InLoop(q)
    /\ lc[q].values_iter.valid_
    /\ LET V == InternalIteratorWrapper_key(lc[q].values_iter)
       IN /\ V.type = "kTypeDeletion"
          /\ ~(/\ lc[q].range_del_iter.valid_
                /\ CompareRangeTsToUserKey(
                       TruncatedRangeDelIteratorWrapper_Tombstone(lc[q].range_del_iter),
                       V.user_key) = "OVERLAP")
          /\ lc'[q].values_iter.pos > lc[q].values_iter.pos

\* C27: a point deletion of K that neither the deletion list nor the current
\* range tombstone of its level covers goes into the deletion list as a point
\* element, under the cursor, and leaves the CSK as it is; a key the deletion
\* list covers stays covered for as long as it is below the CSK, through the
\* rest of the level and all older levels, and no entry of a covered key
\* becomes the CSK
C27_PointDeletionHidesOlderEntries ==
    [][\A q \in Queries :
          /\ PassesPointDeletion(q) =>
                LET K == InternalIteratorWrapper_key(lc[q].values_iter).user_key
                IN /\ gc'[q].csk = gc[q].csk
                   /\ CoveredByDelList(gc'[q], K)
                   /\ ~CoveredByDelList(gc[q], K) =>
                         /\ DelListIter_Valid(gc'[q].del_list, gc'[q].del_list_iter)
                         /\ gc'[q].del_list[gc'[q].del_list_iter] = DelElementPoint(K)
          /\ \A k \in UserKeys :
                /\ pc[q].at \in {"loop", "driver"}
                /\ CoveredByDelList(gc[q], k)
                /\ gc'[q].csk # EmptySlice => Compare(k, gc'[q].csk) < 0
                => CoveredByDelList(gc'[q], k)
          /\ ChoosesCsk(q) => ~CoveredByDelList(gc[q], gc'[q].csk)]_vars

\* a level older than the memtable has passed a value or merge entry of a key
\* that is in the deletion list as a point element, and has not made it the CSK
C27_Witness ==
    \E q \in Queries :
        /\ pc[q].at = "loop" /\ pc[q].phase # "mem"
        /\ lc[q].value_category \in {"VALUE", "MERGE_VALUE"}
        /\ lc[q].values_iter.pos > 1
        /\ lc[q].values_iter.rows[lc[q].values_iter.pos - 1] = lc[q].values_parsed_ikey
        /\ \E i \in 1..Len(gc[q].del_list) :
              gc[q].del_list[i] = DelElementPoint(lc[q].values_parsed_ikey.user_key)
        /\ gc[q].csk # lc[q].values_parsed_ikey.user_key

\* the iteration of query q reaches ProcessCurrValuesIterVsDelList with a
\* range element under the cursor of the deletion list that covers the user
\* key of the entry under the values iterator
ValueCoveredByRangeElement(q) ==
    /\ InLoop(q)
    /\ lc[q].values_iter.valid_
    /\ DelListIter_Valid(gc[q].del_list, gc[q].del_list_iter)
    /\ LET V == InternalIteratorWrapper_key(lc[q].values_iter)
           D == gc[q].del_list[gc[q].del_list_iter]
           R == TruncatedRangeDelIteratorWrapper_Tombstone(lc[q].range_del_iter)
           pos == CompareRangeTsToUserKey(R, V.user_key)
       IN /\ GetValueCategoryOfKey(V.type) # "OTHER"
          /\ IsRange(D) /\ Contains(D, V.user_key)
          /\ \/ ~lc[q].range_del_iter.valid_
             \/ pos = "AFTER"
             \/ /\ pos = "OVERLAP"
                /\ GetValueCategoryOfKey(V.type) # "DEL_KEY"
                /\ R.seq_ < V.sequence

\* a range tombstone of a memtable or of a level-0 file in slots covers entry
\* e and is newer than it
CoveredByMemOrFileRangeTs(slots, e) ==
    \E s \in 1..L0Slot(MaxL0) :
        /\ slots[s] # AbsentSlot
        /\ \E j \in 1..Len(slots[s].ranges) :
              LET R == slots[s].ranges[j]
              IN /\ Compare(R.start_key_, e.user_key) <= 0
                 /\ Compare(e.user_key, R.end_key_) < 0
                 /\ R.seq_ > e.sequence

\* the value and merge entries of user key k in slots
LiveEntriesIn(slots, k) ==
    {e \in UNION {{slots[s].values[i] : i \in 1..Len(slots[s].values)} :
                     s \in {t \in 1..NumSlots : slots[t] # AbsentSlot}} :
        e.user_key = k /\ e.type \in {"kTypeValue", "kTypeMerge"}}

\* C28: when the user key K of the entry under the values iterator is covered
\* by the range element D under the cursor of the deletion list, the
\* iteration moves the values iterator forward to the first entry at or after
\* the end of D and changes nothing else; no entry of a key that a range
\* element covers sets the CSK; and the key a query returns has a value or
\* merge entry that no newer range tombstone of a memtable or level-0 file
\* covers
C28_RangeElementHidesCoveredKeys ==
    [][\A q \in Queries :
          /\ ValueCoveredByRangeElement(q) =>
                LET D == gc[q].del_list[gc[q].del_list_iter]
                    it == lc[q].values_iter
                    moved == lc'[q].values_iter
                IN /\ gc'[q] = gc[q]
                   /\ ~lc'[q].new_csk_found_in_level
                   /\ moved.pos > it.pos
                   /\ \A i \in it.pos..(moved.pos - 1) :
                         Compare(it.rows[i].user_key, D.user_end_key) < 0
                   /\ moved.pos <= Len(moved.rows) =>
                         Compare(moved.rows[moved.pos].user_key, D.user_end_key) >= 0
          /\ ChoosesCsk(q) =>
                \A i \in 1..Len(gc[q].del_list) :
                    IsRange(gc[q].del_list[i]) =>
                        ~Contains(gc[q].del_list[i], gc'[q].csk)
          /\ pc'[q].at = "done" /\ ret'[q].key # EmptySlice =>
                \E e \in LiveEntriesIn(sv'.slots, ret'[q].key) :
                    ~CoveredByMemOrFileRangeTs(sv'.slots, e)]_vars

\* a query returned a key although the store holds, in an older level, a
\* value or merge entry of a smaller key at or after the target: a range
\* tombstone of a memtable hides it
C28_Witness ==
    \E q \in Queries :
        /\ Done(q) /\ ret[q].key # EmptySlice
        /\ \E k \in UserKeys :
              /\ Compare(gc[q].target, k) <= 0
              /\ Compare(k, ret[q].key) < 0
              /\ \E e \in LiveEntriesIn(sv.slots, k) :
                    CoveredByMemOrFileRangeTs(sv.slots, e)

SeekCall(cursor, target, from) == [cursor |-> cursor, target |-> target, from |-> from]

\* the seeks of ProcessCurrRangeTsVsDelList: SeekForward(range_ts.start_key_)
\* of the BEFORE case, SeekForward(range_ts.end_key_) after the two
\* ReplaceWith that end at the tombstone's end (the cursor then stands on the
\* replaced element), and Seek(del_elem.user_end_key) on the range-tombstone
\* iterator
SeeksOfRangeTsVsDelList(g, l, range_ts) ==
    IF ~DelListIter_Valid(g.del_list, g.del_list_iter) THEN {}
    ELSE LET del_elem == g.del_list[g.del_list_iter]
             cmp == CompareDelElemToRangeTs(del_elem, range_ts)
             starts_at_or_before == cmp.overlap_start_rel_pos \in {"BEFORE", "OVERLAP"}
             ends_before == cmp.overlap_end_rel_pos = "BEFORE"
             after_replace(new_elem) ==
                 LET r == GlobalDelList_ReplaceWith(g.del_list, g.del_list_iter, new_elem)
                 IN {SeekCall("del_list_iter", range_ts.end_key_,
                              r.list[r.iter].user_start_key)}
         IN CASE cmp.pos = "BEFORE" ->
                   {SeekCall("del_list_iter", range_ts.start_key_,
                             del_elem.user_start_key)}
              [] cmp.pos = "AFTER" -> {}
              [] cmp.pos = "OVERLAP" ->
                   IF starts_at_or_before
                   THEN IF ends_before
                        THEN after_replace(
                                 DelElement(del_elem.user_start_key, range_ts.end_key_))
                        ELSE {}
                   ELSE IF ends_before
                        THEN after_replace(
                                 DelElement(range_ts.start_key_, range_ts.end_key_))
                        ELSE {SeekCall("range_del_iter", del_elem.user_end_key,
                                       l.range_del_iter.rows[l.range_del_iter.pos].start_key_)}

\* the seeks of ProcessCurrValuesIterVsDelList: SeekForward(user_key) of the
\* BEFORE case and Seek(user_end_key) on the values iterator when a range
\* element covers the entry
SeeksOfValuesIterVsDelList(g, l) ==
    IF ~DelListIter_Valid(g.del_list, g.del_list_iter) THEN {}
    ELSE LET del_elem == g.del_list[g.del_list_iter]
             user_key == l.values_parsed_ikey.user_key
             pos == CompareDelElemToUserKey(del_elem, user_key)
         IN IF pos = "BEFORE"
            THEN {SeekCall("del_list_iter", user_key, del_elem.user_start_key)}
            ELSE IF pos = "OVERLAP" /\ IsRange(del_elem)
            THEN {SeekCall("values_iter", del_elem.user_end_key,
                           InternalIteratorWrapper_key(l.values_iter).user_key)}
            ELSE {}

\* the seeks one iteration of the main loop of ProcessLogLevel makes
SeeksOfLoopBody(g, l) ==
    IF ~l.values_iter.valid_
    THEN SeeksOfRangeTsVsDelList(
             g, l, TruncatedRangeDelIteratorWrapper_Tombstone(l.range_del_iter))
    ELSE LET ikey == InternalIteratorWrapper_key(l.values_iter)
             lp == [l EXCEPT !.values_parsed_ikey = ikey,
                             !.value_category = GetValueCategoryOfKey(ikey.type)]
         IN IF lp.value_category = "OTHER" THEN {}
            ELSE IF ~lp.range_del_iter.valid_
            THEN SeeksOfValuesIterVsDelList(g, lp)
            ELSE LET range_ts ==
                         TruncatedRangeDelIteratorWrapper_Tombstone(lp.range_del_iter)
                     range_ts_vs_values_iter_key ==
                         CompareRangeTsToUserKey(range_ts, ikey.user_key)
                 IN CASE range_ts_vs_values_iter_key = "BEFORE" ->
                           SeeksOfRangeTsVsDelList(g, lp, range_ts)
                      [] range_ts_vs_values_iter_key = "AFTER" ->
                           SeeksOfValuesIterVsDelList(g, lp)
                      [] range_ts_vs_values_iter_key = "OVERLAP" ->
                           IF lp.value_category # "DEL_KEY" /\ range_ts.seq_ < ikey.sequence
                           THEN LET r == ProcessCurrValuesIterVsDelList(g, lp)
                                IN SeeksOfValuesIterVsDelList(g, lp)
                                   \cup (IF r.lc.new_csk_found_in_level
                                         THEN SeeksOfRangeTsVsDelList(r.gc, r.lc, range_ts)
                                         ELSE {})
                           ELSE {}

\* C30: inside a level every seek of a loop iteration (Seek on the values
\* iterator, Seek on the range-tombstone iterator, SeekForward on the cursor
\* of the deletion list) is called with a key that is not smaller than the
\* key the cursor stands on, and no iteration moves the values iterator or
\* the range-tombstone iterator to an earlier entry
C30_CursorsMoveOnlyForward ==
    [][\A q \in Queries :
          /\ InLoop(q) =>
                \A c \in SeeksOfLoopBody(gc[q], lc[q]) : Compare(c.target, c.from) >= 0
          /\ pc[q].at = "loop" /\ pc'[q] = pc[q] =>
                /\ lc'[q].values_iter.pos >= lc[q].values_iter.pos
                /\ lc'[q].range_del_iter.pos >= lc[q].range_del_iter.pos]_vars

\* the values iterator has moved on inside its level and now stands on an
\* entry that a range element of the deletion list covers: the iteration
\* seeks it to the end of that element
C30_Witness ==
    \E q \in Queries :
        /\ InLoop(q)
        /\ lc[q].values_iter.pos > 1
        /\ \E c \in SeeksOfLoopBody(gc[q], lc[q]) :
              c.cursor = "values_iter" /\ Compare(c.target, c.from) > 0

\* C31: the step that enters a level leaves the deletion list as it is and
\* positions the three cursors from the start: with an empty target each
\* stands on its first element; otherwise the cursor of the deletion list
\* stands on the first element that is not wholly before the target, the
\* values iterator on the first entry at or after the target, and the
\* range-tombstone iterator (when the level has one) on the first tombstone
\* that ends after the target, wherever the previous level left the cursor
C31_LevelStartRepositionsCursors ==
    [][\A q \in Queries :
          pc[q].at = "driver" /\ pc'[q].at = "loop" =>
              LET target == gc[q].target
                  del_list == gc'[q].del_list
                  del_list_iter == gc'[q].del_list_iter
                  values_iter == lc'[q].values_iter
                  range_del_iter == lc'[q].range_del_iter
              IN /\ del_list = gc[q].del_list
                 /\ \A i \in 1..Len(del_list) :
                       i < del_list_iter <=>
                           /\ target # EmptySlice
                           /\ \A j \in 1..i :
                                 CompareDelElemToUserKey(del_list[j], target) = "BEFORE"
                 /\ del_list_iter \in 1..(Len(del_list) + 1)
                 /\ \A i \in 1..Len(values_iter.rows) :
                       i < values_iter.pos <=>
                           /\ target # EmptySlice
                           /\ Compare(values_iter.rows[i].user_key, target) < 0
                 /\ values_iter.pos \in 1..(Len(values_iter.rows) + 1)
                 /\ range_del_iter.wrapped_iter_ptr_ =>
                       /\ \A i \in 1..Len(range_del_iter.rows) :
                             i < range_del_iter.pos <=>
                                 /\ target # EmptySlice
                                 /\ Compare(range_del_iter.rows[i].end_key_, target) <= 0
                       /\ range_del_iter.pos \in 1..(Len(range_del_iter.rows) + 1)]_vars

\* a level after the memtable has just been entered with a deletion list
\* that is not empty, and the cursor stands on its first element
C31_Witness ==
    \E q \in Queries :
        /\ pc[q].at = "loop" /\ pc[q].phase # "mem"
        /\ loop_count = 0
        /\ gc[q].del_list # <<>>
        /\ gc[q].del_list_iter = 1

\* the iteration of q stands on a value or merge entry that the current range
\* tombstone of the level overlaps and that is not newer than the tombstone
ShadowedByRangeTs(q) ==
    /\ InLoop(q)
    /\ lc[q].values_iter.valid_ /\ lc[q].range_del_iter.valid_
    /\ LET V == InternalIteratorWrapper_key(lc[q].values_iter)
           R == TruncatedRangeDelIteratorWrapper_Tombstone(lc[q].range_del_iter)
       IN /\ GetValueCategoryOfKey(V.type) \in {"VALUE", "MERGE_VALUE"}
          /\ CompareRangeTsToUserKey(R, V.user_key) = "OVERLAP"
          /\ R.seq_ >= V.sequence

\* the step is an iteration of the main loop of q
IterationOf(q) == pc[q].at = "loop" /\ (gc'[q] # gc[q] \/ lc'[q] # lc[q])

\* the step moves the values iterator of q one entry on and changes nothing
\* else of the deletion list, its cursor, the CSK and the range-tombstone
\* iterator
OnlyValuesIterNext(q) ==
    /\ gc'[q] = gc[q]
    /\ lc'[q].range_del_iter = lc[q].range_del_iter
    /\ lc'[q].new_csk_found_in_level = lc[q].new_csk_found_in_level
    /\ lc'[q].values_iter.pos = lc[q].values_iter.pos + 1
    /\ lc'[q].values_iter.rows = lc[q].values_iter.rows
    /\ lc'[q].values_iter.upper_bound_ = lc[q].values_iter.upper_bound_

\* C32: an iteration on a value or merge entry that overlaps the level's
\* current range tombstone R with R.seq >= the entry's sequence moves the
\* values iterator one entry on and leaves the CSK, the deletion list, its
\* cursor and the range-tombstone iterator as they are
C32_ShadowedValueOnlySkipped ==
    [][\A q \in Queries :
          ShadowedByRangeTs(q) /\ IterationOf(q) => OnlyValuesIterNext(q)]_vars

\* the first iteration of a level has passed a value or merge entry that the
\* level's range tombstone overlaps and that is older than the tombstone; no
\* CSK was found and the deletion list is still empty
C32_Witness ==
    \E q \in Queries :
        /\ pc[q].at = "loop" /\ loop_count = 1
        /\ lc[q].values_iter.pos = 2
        /\ lc[q].range_del_iter.valid_ /\ lc[q].range_del_iter.pos = 1
        /\ LET V == lc[q].values_iter.rows[1]
               R == TruncatedRangeDelIteratorWrapper_Tombstone(lc[q].range_del_iter)
           IN /\ GetValueCategoryOfKey(V.type) \in {"VALUE", "MERGE_VALUE"}
              /\ CompareRangeTsToUserKey(R, V.user_key) = "OVERLAP"
              /\ R.seq_ > V.sequence
        /\ gc[q].csk = EmptySlice /\ gc[q].del_list = <<>>
        /\ ~lc[q].new_csk_found_in_level

\* the iteration of q stands on an entry whose category is OTHER
OnOtherEntry(q) ==
    /\ InLoop(q)
    /\ lc[q].values_iter.valid_
    /\ GetValueCategoryOfKey(InternalIteratorWrapper_key(lc[q].values_iter).type) = "OTHER"

\* C33: an iteration on an entry of category OTHER moves the values iterator
\* one entry on and leaves the CSK, the deletion list, its cursor and the
\* range-tombstone iterator as they are, so the entry is not taken as the CSK
C33_OtherEntryOnlySkipped ==
    [][\A q \in Queries :
          OnOtherEntry(q) /\ IterationOf(q) => OnlyValuesIterNext(q)]_vars

\* the first iteration of a level has passed an entry of category OTHER
\* while the level holds a range tombstone; no CSK was found and the
\* deletion list is still empty
C33_Witness ==
    \E q \in Queries :
        /\ pc[q].at = "loop" /\ loop_count = 1
        /\ lc[q].values_iter.pos = 2
        /\ GetValueCategoryOfKey(lc[q].values_iter.rows[1].type) = "OTHER"
        /\ lc[q].range_del_iter.valid_ /\ lc[q].range_del_iter.pos = 1
        /\ gc[q].csk = EmptySlice /\ gc[q].del_list = <<>>
        /\ ~lc[q].new_csk_found_in_level

\* the main loop of the level query q is in has ended
LoopEnded(q) == pc[q].at = "loop" /\ ~LoopCondition(lc[q])

\* entry e of the level of l is a candidate of that level for query g: it is
\* at or after the target and below the CSK the level was entered with, no
\* element of the deletion list covers its key and no newer range tombstone
\* of the level does
UncoveredInLevel(g, l, e) ==
    /\ Compare(g.target, e.user_key) <= 0
    /\ l.values_iter.upper_bound_ # EmptySlice =>
           Compare(e.user_key, l.values_iter.upper_bound_) < 0
    /\ ~CoveredByDelList(g, e.user_key)
    /\ \A j \in 1..Len(l.range_del_iter.rows) :
           LET R == l.range_del_iter.rows[j]
           IN ~(CompareRangeTsToUserKey(R, e.user_key) = "OVERLAP" /\ R.seq_ > e.sequence)

\* C34: a merge entry counts as present: when the main loop of a level whose
\* iterator met no error has ended, the CSK is at or below the user key of
\* every merge entry of the level that is at or after the target, below the
\* CSK the level was entered with, covered by no element of the deletion
\* list and shadowed by no newer range tombstone of the level
C34_MergeEntryBecomesCsk ==
    \A q \in Queries :
        LoopEnded(q) /\ lc[q].values_iter.status = "OK" =>
            \A i \in 1..Len(lc[q].values_iter.rows) :
                LET e == lc[q].values_iter.rows[i]
                IN GetValueCategoryOfKey(e.type) = "MERGE_VALUE"
                   /\ UncoveredInLevel(gc[q], lc[q], e)
                   => /\ gc[q].csk # EmptySlice
                      /\ Compare(gc[q].csk, e.user_key) <= 0

\* a range with a start below its end, or a point
WellFormed(del_elem) ==
    IsRange(del_elem) => Compare(del_elem.user_start_key, del_elem.user_end_key) < 0

\* the values the comparisons of one iteration of the main loop yield: the
\* range tombstone against the key of the entry, the element under the
\* cursor of the deletion list against that key, and that element against
\* the range tombstone
Classifications(g, l) ==
    LET on_list == DelListIter_Valid(g.del_list, g.del_list_iter)
        on_value == l.values_iter.valid_
        on_range == l.range_del_iter.valid_
        user_key == InternalIteratorWrapper_key(l.values_iter).user_key
        range_ts == TruncatedRangeDelIteratorWrapper_Tombstone(l.range_del_iter)
        del_elem == g.del_list[g.del_list_iter]
    IN (IF on_value /\ on_range
        THEN {CompareRangeTsToUserKey(range_ts, user_key)} ELSE {})
       \cup (IF on_value /\ on_list
             THEN {CompareDelElemToUserKey(del_elem, user_key)} ELSE {})
       \cup (IF on_range /\ on_list
             THEN {CompareDelElemToRangeTs(del_elem, range_ts).pos} ELSE {})

RangeTsVsDelListCalls(g, l) ==
    LET call(cg, cl, range_ts) == [gc |-> cg, lc |-> cl, range_ts |-> range_ts]
    IN IF ~l.values_iter.valid_
       THEN {call(g, l, TruncatedRangeDelIteratorWrapper_Tombstone(l.range_del_iter))}
       ELSE LET ikey == InternalIteratorWrapper_key(l.values_iter)
                lp == [l EXCEPT !.values_parsed_ikey = ikey,
                                !.value_category = GetValueCategoryOfKey(ikey.type)]
                range_ts == TruncatedRangeDelIteratorWrapper_Tombstone(lp.range_del_iter)
                pos == CompareRangeTsToUserKey(range_ts, ikey.user_key)
            IN IF lp.value_category = "OTHER" \/ ~lp.range_del_iter.valid_ THEN {}
               ELSE IF pos = "BEFORE" THEN {call(g, lp, range_ts)}
               ELSE IF /\ pos = "OVERLAP" /\ lp.value_category # "DEL_KEY"
                       /\ range_ts.seq_ < ikey.sequence
               THEN LET r == ProcessCurrValuesIterVsDelList(g, lp)
                    IN IF r.lc.new_csk_found_in_level
                       THEN {call(r.gc, r.lc, range_ts)} ELSE {}
               ELSE {}

\* the ReplaceWith of a call of ProcessCurrRangeTsVsDelList, as
\* [old, new]: the element under the cursor and the element that replaces it
ReplaceWithOf(call) ==
    LET g == call.gc
        range_ts == call.range_ts
    IN IF ~DelListIter_Valid(g.del_list, g.del_list_iter) THEN {}
       ELSE LET del_elem == g.del_list[g.del_list_iter]
                cmp == CompareDelElemToRangeTs(del_elem, range_ts)
                starts_at_or_before == cmp.overlap_start_rel_pos \in {"BEFORE", "OVERLAP"}
                ends_before == cmp.overlap_end_rel_pos = "BEFORE"
                replace(new_elem) == {[old |-> del_elem, new |-> new_elem]}
            IN IF cmp.pos # "OVERLAP" THEN {}
               ELSE IF starts_at_or_before
               THEN IF ends_before
                    THEN replace(DelElement(del_elem.user_start_key, range_ts.end_key_))
                    ELSE {}
               ELSE IF ends_before
                    THEN replace(DelElement(range_ts.start_key_, range_ts.end_key_))
                    ELSE replace(DelElement(range_ts.start_key_, del_elem.user_end_key))

\* every user key element a covers, element b covers
Superset(b, a) == \A k \in UserKeys : Contains(a, k) => Contains(b, k)

\* C36: while a query runs, a user key that an element of the deletion list
\* covers stays covered after every step as long as it is below the CSK (or
\* there is no CSK), and the element an iteration passes to ReplaceWith
\* covers every key the element it replaces covers
C36_CoverageOnlyGrowsBelowCsk ==
    [][\A q \in Queries :
          /\ pc[q].at \in {"driver", "loop"} =>
                \A k \in UserKeys :
                    /\ CoveredByDelList(gc[q], k)
                    /\ gc'[q].csk # EmptySlice => Compare(k, gc'[q].csk) < 0
                    => CoveredByDelList(gc'[q], k)
          /\ InLoop(q) =>
                \A call \in RangeTsVsDelListCalls(gc[q], lc[q]) :
                    \A r \in ReplaceWithOf(call) :
                        /\ IsRange(r.new)
                        /\ Superset(r.new, r.old)]_vars

\* an iteration is about to replace the element under the cursor by a range
\* that covers a user key the element does not cover
C36_Witness ==
    \E q \in Queries :
        /\ InLoop(q)
        /\ \E call \in RangeTsVsDelListCalls(gc[q], lc[q]) :
              \E r \in ReplaceWithOf(call) :
                  \E k \in UserKeys : Contains(r.new, k) /\ ~Contains(r.old, k)

\* the slots query q has processed or is processing
SlotsReached(q) ==
    {s \in 1..NumSlots : s <= SlotAtPc(pc[q]) /\ sv.slots[s] # AbsentSlot}

\* a level query q has reached stores a value or a merge entry for user key k
StoredValueOrMerge(q, k) ==
    \E s \in SlotsReached(q) :
        \E i \in 1..Len(sv.slots[s].values) :
            /\ sv.slots[s].values[i].user_key = k
            /\ sv.slots[s].values[i].type \in {"kTypeValue", "kTypeMerge"}

\* C37: at every point of a query a CSK that is not empty is the user key of
\* a value or merge entry stored in a level the query has reached, and the
\* key a query returns is its CSK
C37_CskIsStoredValueOrMerge ==
    \A q \in Queries :
        /\ pc[q].at # "idle" /\ gc[q].csk # EmptySlice =>
              StoredValueOrMerge(q, gc[q].csk)
        /\ Done(q) => ret[q].key = gc[q].csk

\* a query has returned a key from a store that also holds a point deletion
\* and a range tombstone in the levels it processed
C37_Witness ==
    \E q \in Queries :
        /\ Done(q) /\ ret[q].key # EmptySlice
        /\ \E s \in SlotsReached(q) :
              \E i \in 1..Len(sv.slots[s].values) :
                  sv.slots[s].values[i].type = "kTypeDeletion"
        /\ \E s \in SlotsReached(q) : sv.slots[s].ranges # <<>>

====
